---------------------------- MODULE Spec2Model ----------------------------
(***************************************************************************)
(* Model of MultiModeDmarcClient (js/services/multi-mode-dmarc-client.js): *)
(* the batch scan orchestrator checkDomains with its worker pool, the      *)
(* cooperative stop flag, the result cache and the final re-ordering.      *)
(*                                                                         *)
(* trim(), toLowerCase() and the validator's regular expression are        *)
(* computed on the characters of the strings.                              *)
(* One action is one task of the event loop: the JavaScript that runs      *)
(* from a call or a timer until every continuation it has made ready       *)
(* (promise reactions) has run.  Nothing interleaves with such a stretch.  *)
(***************************************************************************)
EXTENDS Integers, Sequences, FiniteSets, TLC

(***************************************************************************)
(* Bounds of the model.                                                    *)
(***************************************************************************)
\* longest input list handed to checkDomains
MaxBatch == 2
\* largest concurrentRequests option handed to the constructor
MaxConc == 2
\* accepted checkDomains calls in one behaviour
MaxScans == 1

\* default of the concurrentRequests option
DefaultConcurrentRequests == 3
\* default of the delay option, in milliseconds
DefaultDelay == 1000
\* longest label the validator's regular expression accepts: 1 + {0,61} + 1
MaxLabelLen == 63

(***************************************************************************)
(* Strings.  A string of the program is a string of the model; its         *)
(* characters are given by CharsOf, and trim(), toLowerCase() and the      *)
(* validator's regular expression are computed on the characters.          *)
(***************************************************************************)
DomA == "a.co"
\* b.co in upper case with a leading blank
DomB == " B.CO"
\* single label: not a domain
BadX == "ab"
\* label starting with a hyphen: not a domain
BadY == "-.co"
\* blank entry
Blank == " "

\* the strings the model hands to checkDomains
InputStrings == {DomA, DomB, BadX, BadY, Blank}

\* a first label of 63 characters, and one of 64
LongLabel == "aaaaaaaaaaaaaaaaaaaaaaaaaaaaaaaaaaaaaaaaaaaaaaaaaaaaaaaaaaaaaaa.co"
TooLongLabel == "aaaaaaaaaaaaaaaaaaaaaaaaaaaaaaaaaaaaaaaaaaaaaaaaaaaaaaaaaaaaaaaa.co"
\* a last label of 63 characters, and one of 64
LongLastLabel == "a.bbbbbbbbbbbbbbbbbbbbbbbbbbbbbbbbbbbbbbbbbbbbbbbbbbbbbbbbbbbbbbb"
TooLongLastLabel == "a.bbbbbbbbbbbbbbbbbbbbbbbbbbbbbbbbbbbbbbbbbbbbbbbbbbbbbbbbbbbbbbbb"

\* more strings for the validator: one label, a last label of one character,
\* hyphens inside and at the ends of a label, empty labels, a blank inside,
\* a digit, three labels, mixed case, and the long labels
ValidatorStrings ==
    {"a", "a.b", "a-b.co", "A-b.Co", "a-.co",
     "a.co-", "a.-co", "a..co", ".co", "a.co.",
     "a b.co", "1.co", "a.b.co", "a.c-o",
     LongLabel, TooLongLabel, LongLastLabel, TooLongLastLabel}

\* the input strings and what trim() and toLowerCase() make of them, and
\* the strings for the validator
Strings == InputStrings \cup {"B.CO", "b.co", ""} \cup ValidatorStrings

CharsOf(str) ==
    CASE str = "a.co" -> <<"a", ".", "c", "o">>
      [] str = " B.CO" -> <<" ", "B", ".", "C", "O">>
      [] str = "B.CO" -> <<"B", ".", "C", "O">>
      [] str = "b.co" -> <<"b", ".", "c", "o">>
      [] str = "ab" -> <<"a", "b">>
      [] str = "-.co" -> <<"-", ".", "c", "o">>
      [] str = " " -> <<" ">>
      [] str = "" -> <<>>
      [] str = "a" -> <<"a">>
      [] str = "a.b" -> <<"a", ".", "b">>
      [] str = "a-b.co" -> <<"a", "-", "b", ".", "c", "o">>
      [] str = "A-b.Co" -> <<"A", "-", "b", ".", "C", "o">>
      [] str = "a-.co" -> <<"a", "-", ".", "c", "o">>
      [] str = "a.co-" -> <<"a", ".", "c", "o", "-">>
      [] str = "a.-co" -> <<"a", ".", "-", "c", "o">>
      [] str = "a..co" -> <<"a", ".", ".", "c", "o">>
      [] str = ".co" -> <<".", "c", "o">>
      [] str = "a.co." -> <<"a", ".", "c", "o", ".">>
      [] str = "a b.co" -> <<"a", " ", "b", ".", "c", "o">>
      [] str = "1.co" -> <<"1", ".", "c", "o">>
      [] str = "a.b.co" -> <<"a", ".", "b", ".", "c", "o">>
      [] str = "a.c-o" -> <<"a", ".", "c", "-", "o">>
      [] str = LongLabel -> [i \in 1..63 |-> "a"] \o <<".", "c", "o">>
      [] str = TooLongLabel -> [i \in 1..64 |-> "a"] \o <<".", "c", "o">>
      [] str = LongLastLabel -> <<"a", ".">> \o [i \in 1..63 |-> "b"]
      [] str = TooLongLastLabel -> <<"a", ".">> \o [i \in 1..64 |-> "b"]

StringOf(chars) == CHOOSE str \in Strings : CharsOf(str) = chars

\* String.prototype.length
Length(str) == Len(CharsOf(str))

LowerLetters == {"a", "b", "c", "o"}
UpperLetters == {"A", "B", "C", "O"}
Digits == {"1"}
Whitespace == {" "}

ToLowerChar(c) ==
    CASE c = "A" -> "a"
      [] c = "B" -> "b"
      [] c = "C" -> "c"
      [] c = "O" -> "o"
      [] OTHER -> c

\* String.prototype.toLowerCase
ToLowerCase(str) ==
    StringOf([i \in 1..Length(str) |-> ToLowerChar(CharsOf(str)[i])])

RECURSIVE TrimStart(_)
TrimStart(s) ==
    IF s # <<>> /\ Head(s) \in Whitespace THEN TrimStart(Tail(s)) ELSE s

RECURSIVE TrimEnd(_)
TrimEnd(s) ==
    IF s # <<>> /\ s[Len(s)] \in Whitespace
    THEN TrimEnd(SubSeq(s, 1, Len(s) - 1))
    ELSE s

\* String.prototype.trim
Trim(str) == StringOf(TrimEnd(TrimStart(CharsOf(str))))

\* the pieces of s between the dots, in order
SplitDots(s) ==
    LET dots == {i \in 1..Len(s) : s[i] = "."}
        n == Cardinality(dots)
        DotAt(k) == CHOOSE i \in dots : Cardinality({j \in dots : j < i}) = k - 1
        First(k) == IF k = 1 THEN 1 ELSE DotAt(k - 1) + 1
        Last(k) == IF k = n + 1 THEN Len(s) ELSE DotAt(k) - 1
    IN [k \in 1..(n + 1) |-> SubSeq(s, First(k), Last(k))]

\* [a-z0-9] under the i flag
IsAlnum(c) == c \in LowerLetters \cup UpperLetters \cup Digits
\* [a-z0-9-] under the i flag
IsAlnumHyphen(c) == IsAlnum(c) \/ c = "-"

\* [a-z0-9](?:[a-z0-9-]{0,61}[a-z0-9])?
IsInnerLabel(l) ==
    /\ Len(l) >= 1
    /\ Len(l) <= MaxLabelLen
    /\ IsAlnum(l[1])
    /\ IsAlnum(l[Len(l)])
    /\ \A i \in 1..Len(l) : IsAlnumHyphen(l[i])

\* faulty variant: a last label of one character is let through
IsLastLabel_OneChar(l) ==
    /\ Len(l) >= 1
    /\ Len(l) <= MaxLabelLen
    /\ IsAlnum(l[1])
    /\ IsAlnum(l[Len(l)])
    /\ \A i \in 1..Len(l) : IsAlnumHyphen(l[i])

\* [a-z0-9][a-z0-9-]{0,61}[a-z0-9]
IsLastLabel(l) ==
    /\ Len(l) >= 2
    /\ Len(l) <= MaxLabelLen
    /\ IsAlnum(l[1])
    /\ IsAlnum(l[Len(l)])
    /\ \A i \in 1..Len(l) : IsAlnumHyphen(l[i])

\* /^(?:[a-z0-9](?:[a-z0-9-]{0,61}[a-z0-9])?\.)+[a-z0-9][a-z0-9-]{0,61}[a-z0-9]$/i
DomainRegexTest(str) ==
    LET labels == SplitDots(CharsOf(str))
        n == Len(labels)
    IN /\ n >= 2
       /\ \A i \in 1..(n - 1) : IsInnerLabel(labels[i])
       /\ IsLastLabel(labels[n])

\* the strings the regular expression matches, computed once
MatchingStrings == {str \in Strings : DomainRegexTest(str)}

\* isValidDomain
isValidDomain(str) == str \in MatchingStrings

RECURSIVE SeqsUpTo(_, _)
SeqsUpTo(S, n) ==
    IF n = 0 THEN {<<>>}
    ELSE LET shorter == SeqsUpTo(S, n - 1)
         IN shorter \cup {Append(q, x) : q \in {r \in shorter : Len(r) = n - 1}, x \in S}

Batches == SeqsUpTo(InputStrings, MaxBatch)

(***************************************************************************)
(* Sequence helpers.                                                       *)
(***************************************************************************)
\* trim() of every string, computed once
Trimmed == [str \in Strings |-> Trim(str)]

\* domains.map(domain => domain.trim())
MapTrim(domains) == [i \in 1..Len(domains) |-> Trimmed[domains[i]]]

Min(a, b) == IF a <= b THEN a ELSE b

Max(a, b) == IF a >= b THEN a ELSE b

(***************************************************************************)
(* Results.                                                                *)
(***************************************************************************)
\* the error field of a result; the messages stand for the program's
\* (Russian) texts
\* a result that a Mode Strategy built has no error
NoError == "absent"
\* the message of checkDomains and checkDomain for a string that is no domain
InvalidFormat == "invalid domain format"
\* the message of _sortResultsByOriginalOrder
NotFound == "Result not found"
\* the message of a Mode Strategy's catch block
StrategyFailed == "strategy failed"
\* the message of checkDomain for an argument that is empty or no string
NoDomain == "no domain given"

\* faulty variant: SPF is weighted as DMARC is
_calculateSecurityScore_SpfAsDmarc(dmarcStatus, spfStatus, dkimStatus) ==
    (IF dmarcStatus = "ok" THEN 40 ELSE IF dmarcStatus = "warning" THEN 20 ELSE 0)
    + (IF spfStatus = "ok" THEN 40 ELSE IF spfStatus = "warning" THEN 20 ELSE 0)
    + (IF dkimStatus = "ok" THEN 30 ELSE IF dkimStatus = "warning" THEN 15 ELSE 0)

\* faulty variant: the two DKIM increments are exchanged
_calculateSecurityScore_DkimSwapped(dmarcStatus, spfStatus, dkimStatus) ==
    (IF dmarcStatus = "ok" THEN 40 ELSE IF dmarcStatus = "warning" THEN 20 ELSE 0)
    + (IF spfStatus = "ok" THEN 30 ELSE IF spfStatus = "warning" THEN 15 ELSE 0)
    + (IF dkimStatus = "ok" THEN 15 ELSE IF dkimStatus = "warning" THEN 30 ELSE 0)

\* _calculateSecurityScore
_calculateSecurityScore(dmarcStatus, spfStatus, dkimStatus) ==
    (IF dmarcStatus = "ok" THEN 40 ELSE IF dmarcStatus = "warning" THEN 20 ELSE 0)
    + (IF spfStatus = "ok" THEN 30 ELSE IF spfStatus = "warning" THEN 15 ELSE 0)
    + (IF dkimStatus = "ok" THEN 30 ELSE IF dkimStatus = "warning" THEN 15 ELSE 0)

\* faulty variant: the error result keeps a DKIM status and its points
_getErrorResult_DkimKept(domain, errorMessage) ==
    [domain |-> domain, error |-> errorMessage,
     dmarc |-> "error", spf |-> "error", dkim |-> "warning", securityScore |-> 15]

\* _getErrorResult
_getErrorResult(domain, errorMessage) ==
    [domain |-> domain, error |-> errorMessage,
     dmarc |-> "error", spf |-> "error", dkim |-> "error", securityScore |-> 0]

\* the result object a Mode Strategy builds from three statuses
StrategyResult(domain, t) ==
    [domain |-> domain, error |-> NoError,
     dmarc |-> t[1], spf |-> t[2], dkim |-> t[3],
     securityScore |-> _calculateSecurityScore(t[1], t[2], t[3])]

\* the status triples the model lets a Mode Strategy answer with
StatusTriples == {<<"ok", "warning", "error">>}

\* placeholder of a worker slot that holds no result
NoResult == _getErrorResult("", "")

(***************************************************************************)
(* State.                                                                  *)
(***************************************************************************)
\* fields of the client object
VARIABLES isScanning, shouldStop, activeScanTasks, cache, cacheEnabled, mode,
          concurrentRequests, delay

\* locals of the checkDomains call in flight that change (closure of its
\* workers); they are gone once the call has settled
VARIABLES domainQueue, results, completedCount, workers

\* what the callers of the client have seen: the argument and the settled
\* value of the last accepted checkDomains call, the last call the client
\* refused, the arguments of the progress callback's calls (processed,
\* total, result) in call order, and the number of accepted checkDomains
\* calls
VARIABLES input, returned, refused, progress, scans

\* the progress callback the caller hands to checkDomains: none, one that
\* returns, or one that throws
VARIABLES progressCallback

\* the last checkDomain call made from outside a scan: its position, the
\* domain it looks up, the Mode Strategy it invoked and its settled value
VARIABLES direct

\* the last selectBestAvailableMode call: its position, the availability
\* probes it has made, in order, and its settled value
VARIABLES selection

\* one call of a method that computes its value from its arguments and from
\* the answers of the DNS lookups it makes: the method, the arguments with
\* the answers, and the value returned
VARIABLES analysis

\* the dmarc_client:mode_changed events the last setMode call has emitted on
\* window.EventBus, which index.html installs before the client is loaded:
\* the argument of each, in order
VARIABLES notified

\* what the caller of stopScan remembers: whether a call of its has set the
\* stop flag of a scan
VARIABLES stopped

clientVars == <<isScanning, shouldStop, activeScanTasks, cache, cacheEnabled,
                mode, concurrentRequests, delay>>
scanVars == <<domainQueue, results, completedCount, workers>>
callerVars == <<input, returned, refused, progress, scans>>
envVars == <<progressCallback, direct, selection, analysis, notified, stopped>>
vars == <<clientVars, scanVars, callerVars, envVars>>

\* new Map()
EmptyCache == [k \in {} |-> NoResult]

\* Map.prototype.set
CacheSet(c, key, value) ==
    [k \in DOMAIN c \cup {key} |-> IF k = key THEN value ELSE c[k]]

\* the promise of the last accepted call has not settled
Pending == [settled |-> FALSE, list |-> <<>>]

\* no checkDomain call has been made from outside a scan
NoCall == [pc |-> "none", domain |-> "", strategy |-> "none", result |-> NoResult]

\* no selectBestAvailableMode call has been made
NoSelection == [pc |-> "none", probes |-> <<>>, value |-> "none"]

\* no such call is looked at
NoAnalysis == [fn |-> "none"]

\* what a caller can hand to checkDomains as progressCallback: nothing
\* (null), a function that returns, a function that throws
Callbacks == {"none", "returns", "throws"}

\* constructor
InitClient ==
    /\ isScanning = FALSE
    /\ shouldStop = FALSE
    /\ activeScanTasks = 0
    /\ cache = EmptyCache
    /\ cacheEnabled = TRUE
    /\ mode = "simulation"
    /\ concurrentRequests \in 1..MaxConc
    /\ domainQueue = <<>>
    /\ results = <<>>
    /\ completedCount = 0
    /\ workers = <<>>
    /\ input = <<>>
    /\ returned = Pending
    /\ refused = "none"
    /\ progress = <<>>
    /\ scans = 0
    /\ delay = DefaultDelay
    /\ direct = NoCall
    /\ selection = NoSelection
    /\ notified = <<>>
    /\ stopped = FALSE

\* the values the model hands to the constructor as options.concurrentRequests
\* and to setConcurrentRequests as count: integers, 0 and a negative one
\* among them
CountArguments == -1..MaxConc

\* constructor with options: this.mode = options.mode || 'simulation',
\* this.concurrentRequests = options.concurrentRequests || 3,
\* this.cacheEnabled = options.cacheEnabled !== false; none of them is
\* looked at any further
InitOptions ==
    /\ isScanning = FALSE
    /\ shouldStop = FALSE
    /\ activeScanTasks = 0
    /\ cache = EmptyCache
    /\ cacheEnabled \in BOOLEAN
    /\ mode \in {"api", "web", "offline", "simulation", "bogus"}
    /\ concurrentRequests \in {IF count = 0 THEN DefaultConcurrentRequests ELSE count :
                                  count \in CountArguments}
    /\ domainQueue = <<>>
    /\ results = <<>>
    /\ completedCount = 0
    /\ workers = <<>>
    /\ input = <<>>
    /\ returned = Pending
    /\ refused = "none"
    /\ progress = <<>>
    /\ scans = 0
    /\ delay = DefaultDelay
    /\ direct = NoCall
    /\ selection = NoSelection
    /\ notified = <<>>
    /\ stopped = FALSE
    /\ progressCallback = "returns"
    /\ analysis = NoAnalysis

\* a client whose caller hands checkDomains a callback that returns
Init ==
    /\ InitClient
    /\ progressCallback = "returns"
    /\ analysis = NoAnalysis

\* a client whose caller hands checkDomains any of the callbacks
InitCallbacks ==
    /\ InitClient
    /\ progressCallback \in Callbacks
    /\ analysis = NoAnalysis

(***************************************************************************)
(* processNextDomain and checkDomain, as operators on the locals of the    *)
(* scan: [queue, results, completedCount, progress].                       *)
(***************************************************************************)
\* faulty variant: the counter is not incremented
Increment_Skips(n) == n

\* completedCount++
Increment(n) == n + 1

\* if (progressCallback) try { progressCallback(...) } catch { log }: the
\* call is made when a callback was handed in; what it throws is caught
\* and logged
Report(calls, processed, total, result) ==
    IF progressCallback = "none" THEN calls
    ELSE Append(calls, <<processed, total, result>>)

\* faulty variant: a callback that throws undoes the push and the count
Push_RollsBackOnThrow(scan, result, total) ==
    IF progressCallback = "throws"
    THEN [scan EXCEPT !.progress = Report(scan.progress, Increment(scan.completedCount),
                                          total, result)]
    ELSE [scan EXCEPT !.results = Append(scan.results, result),
                      !.completedCount = Increment(scan.completedCount),
                      !.progress = Report(scan.progress, Increment(scan.completedCount),
                                          total, result)]

\* results.push(result); completedCount++; progressCallback(...)
Push(scan, result, total) ==
    [scan EXCEPT !.results = Append(scan.results, result),
                 !.completedCount = Increment(scan.completedCount),
                 !.progress = Report(scan.progress, Increment(scan.completedCount),
                                     total, result)]

\* trim().toLowerCase() of every string that trim() leaves in Strings,
\* computed once
Normalized == [str \in Strings |-> ToLowerCase(Trim(str))]

\* faulty variant: the string is trimmed but keeps its letter case
Normalize_TrimOnly(domain) == Trimmed[domain]

\* domain = domain.trim().toLowerCase()
Normalize(domain) == Normalized[domain]

\* faulty variant: the format of the domain is not looked at
ImmediateAnswers_NoValidation(domain) ==
    IF cacheEnabled /\ Normalize(domain) \in DOMAIN cache
    THEN {cache[Normalize(domain)]}
    ELSE {}

\* faulty variant: the cache is not looked at
ImmediateAnswers_NoCache(domain) ==
    IF ~isValidDomain(Normalize(domain))
    THEN {_getErrorResult(Normalize(domain), InvalidFormat)}
    ELSE {}

\* faulty variant: the cache is read whether or not caching is enabled
ImmediateAnswers_CacheAlwaysRead(domain) ==
    LET d == Normalize(domain)
    IN IF ~isValidDomain(d) THEN {_getErrorResult(d, InvalidFormat)}
       ELSE IF d \in DOMAIN cache THEN {cache[d]}
       ELSE {}

\* checkDomain up to its first await, for the domain a worker popped: the
\* answer without a Mode Strategy (invalid format, cache hit), if any
ImmediateAnswers(domain) ==
    LET d == Normalize(domain)
    IN IF ~isValidDomain(d) THEN {_getErrorResult(d, InvalidFormat)}
       ELSE IF cacheEnabled /\ d \in DOMAIN cache THEN {cache[d]}
       ELSE {}

\* faulty variant: a worker that has the answer at once leaves its loop
\* without the inter-request delay
Dispatch_NoDelayAfterAnswer(scan, domain, total) ==
    IF ImmediateAnswers(domain) = {}
    THEN [scan |-> scan, worker |-> [pc |-> "checking", domain |-> domain]]
    ELSE [scan |-> Push(scan, CHOOSE r \in ImmediateAnswers(domain) : TRUE, total),
          worker |-> [pc |-> "done", domain |-> domain]]

\* a worker that has popped `domain`: it waits for the Mode Strategy, or it
\* has the answer at once, pushes it and waits for the inter-request delay
Dispatch(scan, domain, total) ==
    IF ImmediateAnswers(domain) = {}
    THEN [scan |-> scan, worker |-> [pc |-> "checking", domain |-> domain]]
    ELSE [scan |-> Push(scan, CHOOSE r \in ImmediateAnswers(domain) : TRUE, total),
          worker |-> [pc |-> "delay", domain |-> domain]]

\* faulty variant: the head of the queue is read but not removed
Shift_KeepsHead(scan) == scan

\* const domain = domainQueue.shift()
Shift(scan) == [scan EXCEPT !.queue = Tail(scan.queue)]

\* the first run of processNextDomain of workers 1..n, one after the other
RECURSIVE StartWorkers(_, _, _)
StartWorkers(scan, n, total) ==
    IF n = 0 THEN [scan |-> scan, workers |-> <<>>]
    ELSE LET before == StartWorkers(scan, n - 1, total)
             step == Dispatch(Shift(before.scan), Head(before.scan.queue), total)
         IN [scan |-> step.scan, workers |-> Append(before.workers, step.worker)]

(***************************************************************************)
(* The Mode Strategies.  _simulateDomainCheck, which the api and the web   *)
(* strategy call too, answers after a timer: in a later task.              *)
(* _checkDomainOffline awaits _dnsLookup only, which answers from a table  *)
(* and from Math.random without waiting for anything: its answer, the      *)
(* cache.set and the push that follow it are part of the task that         *)
(* started the check.                                                      *)
(***************************************************************************)
\* switch (this.mode): the Mode Strategy that is invoked
StrategyOf(m) == IF m \in {"api", "web", "offline"} THEN m ELSE "simulation"

\* the strategy answers in the task that invokes it
AnswersAtOnce(strategy) == strategy = "offline"

\* what a Mode Strategy can answer for a domain: a result built from three
\* statuses, or the error result of its own catch block
StrategyOutcomes(domain) ==
    {StrategyResult(domain, t) : t \in StatusTriples}
        \cup {_getErrorResult(domain, StrategyFailed)}

\* the workers whose check waits for its Mode Strategy
Checking(ws) == {w \in DOMAIN ws : ws[w].pc = "checking"}

\* the orders in which the checks of the workers in S can complete
Orders(S) ==
    {order \in [1..Cardinality(S) -> S] :
        \A i, j \in 1..Cardinality(S) : order[i] = order[j] => i = j}

\* the answers the Mode Strategy can give to the workers in S
Outcomes(ws, S) ==
    {outs \in [S -> UNION {StrategyOutcomes(d) : d \in Strings}] :
        \A w \in S : outs[w] \in StrategyOutcomes(Normalize(ws[w].domain))}

\* checkDomain after its Mode Strategy has answered, then processNextDomain:
\* cache.set if caching is enabled, push, count, report
Complete(st, domain, r, total) ==
    [scan |-> Push(st.scan, r, total),
     cache |-> IF cacheEnabled THEN CacheSet(st.cache, Normalize(domain), r)
               ELSE st.cache]

RECURSIVE CompleteInOrder(_, _, _, _, _)
CompleteInOrder(st, ws, order, outs, total) ==
    IF order = <<>> THEN st
    ELSE CompleteInOrder(Complete(st, ws[Head(order)].domain, outs[Head(order)], total),
                         ws, Tail(order), outs, total)

\* the end of the task that has started the workers ws: with a strategy
\* that answers at once every check completes, in any order, and every
\* worker waits for its inter-request delay
SameTask(started, total) ==
    IF ~AnswersAtOnce(StrategyOf(mode)) \/ Checking(started.workers) = {}
    THEN {[scan |-> started.scan, cache |-> cache, workers |-> started.workers]}
    ELSE {LET st == CompleteInOrder([scan |-> started.scan, cache |-> cache],
                                    started.workers, order, outs, total)
          IN [scan |-> st.scan, cache |-> st.cache,
              workers |-> [w \in DOMAIN started.workers |->
                              [started.workers[w] EXCEPT !.pc = "delay"]]] :
             order \in Orders(Checking(started.workers)),
             outs \in Outcomes(started.workers, Checking(started.workers))}

(***************************************************************************)
(* checkDomains: from the call to the first suspension of every worker.    *)
(***************************************************************************)
\* faulty variant: the re-entrancy guard never fires
AlreadyScanning_Never == FALSE

\* if (this.isScanning) throw
AlreadyScanning == isScanning

IsValidEntry(d) == Length(d) > 0 /\ isValidDomain(d)
IsInvalidEntry(d) == Length(d) > 0 /\ ~isValidDomain(d)

\* domains.map(trim).filter(valid)
ValidDomainsOf(domains) == SelectSeq(MapTrim(domains), IsValidEntry)
\* domains.map(trim).filter(invalid)
InvalidDomainsOf(domains) == SelectSeq(MapTrim(domains), IsInvalidEntry)

\* faulty variant: one worker per valid domain, whatever concurrentRequests is
WorkerCount_Unbounded(validCount) == validCount

\* Math.min(this.concurrentRequests, validDomains.length); the for loop
\* starts no worker when that is not positive
WorkerCount(validCount) == Max(0, Min(concurrentRequests, validCount))

\* results and progress after invalidDomains.forEach
RECURSIVE PushInvalid(_, _, _)
PushInvalid(scan, invalid, total) ==
    IF invalid = <<>> THEN scan
    ELSE PushInvalid(Push(scan, _getErrorResult(Head(invalid), InvalidFormat), total),
                     Tail(invalid), total)

\* faulty variant: the call throws after it has set the scanning state
Refuse_AfterStateSet(why) ==
    /\ refused' = why
    /\ isScanning' = TRUE
    /\ shouldStop' = FALSE
    /\ UNCHANGED <<activeScanTasks, cache, cacheEnabled, mode, concurrentRequests,
                   delay, scanVars, input, returned, progress, scans, envVars>>

\* the call is refused: the promise rejects, nothing else happens
Refuse(why) ==
    /\ refused' = why
    /\ UNCHANGED <<clientVars, scanVars, input, returned, progress, scans, envVars>>

\* the two lists of every batch, computed once
Partition == [b \in Batches |-> [valid |-> ValidDomainsOf(b),
                                 invalid |-> InvalidDomainsOf(b)]]

\* faulty variant: the stop flag is left as the scan before has left it
StartScanUpTo_KeepsStopFlag(domains, limit) ==
    LET valid == Partition[domains].valid
        invalid == Partition[domains].invalid
        total == Len(valid) + Len(invalid)
        fresh == [queue |-> valid, results |-> <<>>, completedCount |-> 0,
                  progress |-> <<>>]
        started == StartWorkers(PushInvalid(fresh, invalid, total),
                                WorkerCount(Len(valid)), total)
    IN IF Len(valid) = 0
       THEN Refuse("checkDomains:empty")
       ELSE /\ scans < limit
            /\ scans' = scans + 1
            /\ isScanning' = TRUE
            /\ \E end \in SameTask(started, total) :
                  /\ results' = end.scan.results
                  /\ completedCount' = end.scan.completedCount
                  /\ progress' = end.scan.progress
                  /\ domainQueue' = end.scan.queue
                  /\ workers' = end.workers
                  /\ cache' = end.cache
            /\ activeScanTasks' = Len(started.workers)
            /\ input' = domains
            /\ returned' = Pending
            /\ refused' = "none"
            /\ UNCHANGED <<shouldStop, cacheEnabled, mode, concurrentRequests, delay,
                           envVars>>

\* checkDomains past its re-entrancy guard; the model accepts `limit` calls
StartScanUpTo(domains, limit) ==
    LET valid == Partition[domains].valid
        invalid == Partition[domains].invalid
        total == Len(valid) + Len(invalid)
        fresh == [queue |-> valid, results |-> <<>>, completedCount |-> 0,
                  progress |-> <<>>]
        started == StartWorkers(PushInvalid(fresh, invalid, total),
                                WorkerCount(Len(valid)), total)
    IN IF Len(valid) = 0
       THEN Refuse("checkDomains:empty")
       ELSE /\ scans < limit
            /\ scans' = scans + 1
            /\ isScanning' = TRUE
            /\ shouldStop' = FALSE
            /\ \E end \in SameTask(started, total) :
                  /\ results' = end.scan.results
                  /\ completedCount' = end.scan.completedCount
                  /\ progress' = end.scan.progress
                  /\ domainQueue' = end.scan.queue
                  /\ workers' = end.workers
                  /\ cache' = end.cache
            /\ activeScanTasks' = Len(started.workers)
            /\ input' = domains
            /\ returned' = Pending
            /\ refused' = "none"
            /\ UNCHANGED <<cacheEnabled, mode, concurrentRequests, delay, envVars>>

StartScan(domains) == StartScanUpTo(domains, MaxScans)

\* faulty variant: the total leaves out the invalid entries
totalCount_ValidOnly == Len(Partition[input].valid)

\* the constants of the call in flight: const validDomains, invalidDomains,
\* totalCount
validDomains == Partition[input].valid
invalidDomains == Partition[input].invalid
totalCount == Len(validDomains) + Len(invalidDomains)

\* the argument is read only once the re-entrancy guard has passed
CheckDomains ==
    IF AlreadyScanning
    THEN Refuse("checkDomains:busy")
    ELSE \E domains \in Batches : StartScan(domains)

\* the lists of the scans that follow one another: shorter by one entry
ShortBatches == {b \in Batches : Len(b) < MaxBatch}

\* checkDomains called with shorter lists, one more call accepted
CheckDomainsRescan ==
    IF AlreadyScanning
    THEN Refuse("checkDomains:busy")
    ELSE \E domains \in ShortBatches : StartScanUpTo(domains, MaxScans + 1)

\* the lists of at most one entry
SingleBatches == {b \in Batches : Len(b) <= 1}

\* checkDomains called with one domain at a time, one more call accepted
CheckDomainsSingle ==
    IF AlreadyScanning
    THEN Refuse("checkDomains:busy")
    ELSE \E domains \in SingleBatches : StartScanUpTo(domains, MaxScans + 1)

\* the lists made of one domain and one string that is no domain
MixedBatches == {b \in Batches : \A i \in 1..Len(b) : b[i] \in {DomA, BadX}}

\* checkDomains called with such a list
CheckDomainsMixed ==
    IF AlreadyScanning
    THEN Refuse("checkDomains:busy")
    ELSE \E domains \in MixedBatches : StartScan(domains)

\* the lists of valid domains
ValidBatches == {b \in Batches : \A i \in 1..Len(b) : b[i] \in {DomA, DomB}}

\* checkDomains called with such a list, one more call accepted
CheckDomainsAgain ==
    IF AlreadyScanning
    THEN Refuse("checkDomains:busy")
    ELSE \E domains \in ValidBatches : StartScanUpTo(domains, MaxScans + 1)

(***************************************************************************)
(* The workers after their first suspension.                               *)
(***************************************************************************)
WorkerIds == DOMAIN workers

ScanLocals == [queue |-> domainQueue, results |-> results,
               completedCount |-> completedCount, progress |-> progress]

\* the Mode Strategy has answered: checkDomain stores and returns the
\* result, processNextDomain pushes it, counts it, reports progress and
\* starts the inter-request delay
CheckComplete(w) ==
    /\ w \in WorkerIds
    /\ workers[w].pc = "checking"
    /\ \E r \in StrategyOutcomes(Normalize(workers[w].domain)) :
          LET after == Push(ScanLocals, r, totalCount)
          IN /\ cache' = IF cacheEnabled
                         THEN CacheSet(cache, Normalize(workers[w].domain), r)
                         ELSE cache
             /\ results' = after.results
             /\ completedCount' = after.completedCount
             /\ progress' = after.progress
    /\ workers' = [workers EXCEPT ![w].pc = "delay"]
    /\ UNCHANGED <<isScanning, shouldStop, activeScanTasks, cacheEnabled, mode,
                   concurrentRequests, delay, domainQueue, input, returned,
                   refused, scans, envVars>>

\* faulty variant: the worker never looks at the stop flag
StopRequested_Ignored == FALSE

\* faulty variant: a failed check makes the workers stop popping
StopRequested_AfterFailure ==
    \/ shouldStop
    \/ \E i \in 1..Len(results) : results[i].error = StrategyFailed

\* if (this.shouldStop) return null
StopRequested == shouldStop

\* the delay is over: the worker's loop runs processNextDomain again
ProcessNextDomain(w) ==
    /\ w \in WorkerIds
    /\ workers[w].pc = "delay"
    /\ IF StopRequested \/ domainQueue = <<>>
       THEN /\ workers' = [workers EXCEPT ![w].pc = "done"]
            /\ UNCHANGED <<domainQueue, results, completedCount, progress, cache>>
       ELSE LET step == Dispatch(Shift(ScanLocals), Head(domainQueue), totalCount)
                popped == [scan |-> step.scan, workers |-> <<step.worker>>]
            IN \E end \in SameTask(popped, totalCount) :
                  /\ workers' = [workers EXCEPT ![w] = end.workers[1]]
                  /\ domainQueue' = end.scan.queue
                  /\ results' = end.scan.results
                  /\ completedCount' = end.scan.completedCount
                  /\ progress' = end.scan.progress
                  /\ cache' = end.cache
    /\ UNCHANGED <<isScanning, shouldStop, activeScanTasks, cacheEnabled, mode,
                   concurrentRequests, delay, input, returned, refused, scans,
                   envVars>>

(***************************************************************************)
(* The end of checkDomains.                                                *)
(***************************************************************************)
\* the entries of res whose domain field is d
IndicesOf(res, d) == {i \in 1..Len(res) : res[i].domain = d}

\* resultMap.get(domain): the last result pushed for the domain
MapGet(res, d) ==
    res[CHOOSE i \in IndicesOf(res, d) : \A j \in IndicesOf(res, d) : j <= i]

\* faulty variant: a domain without a result is left out of the list
SortDroppingMissing(res, originalDomains) ==
    LET Found(d) == IndicesOf(res, d) # {}
        found == SelectSeq(originalDomains, Found)
    IN [i \in 1..Len(found) |-> MapGet(res, found[i])]

\* _sortResultsByOriginalOrder
_sortResultsByOriginalOrder(res, originalDomains) ==
    [i \in 1..Len(originalDomains) |->
        IF IndicesOf(res, originalDomains[i]) # {}
        THEN MapGet(res, originalDomains[i])
        ELSE _getErrorResult(originalDomains[i], NotFound)]

\* faulty variant: the valid domains come first
AllDomains_ValidFirst(invalid, valid) == valid \o invalid

\* const allDomains = [...invalidDomains, ...validDomains]
AllDomains(invalid, valid) == invalid \o valid

\* faulty variant: the call also waits for the queue to drain
AllWorkersDone_QueueDrained ==
    /\ \A w \in DOMAIN workers : workers[w].pc = "done"
    /\ domainQueue = <<>>

\* await Promise.all(workerPromises) has resolved
AllWorkersDone == \A w \in WorkerIds : workers[w].pc = "done"

\* faulty variant: the call returns its list and leaves isScanning set
Finish_KeepsScanning ==
    /\ isScanning
    /\ AllWorkersDone
    /\ ~returned.settled
    /\ returned' = [settled |-> TRUE,
                    list |-> _sortResultsByOriginalOrder(
                                 results, AllDomains(invalidDomains, validDomains))]
    /\ UNCHANGED <<clientVars, scanVars, input, refused, progress, scans, envVars>>

\* checkDomains after await Promise.all: reset the state, return the list;
\* nothing refers to the locals of the call any more
Finish ==
    /\ isScanning
    /\ AllWorkersDone
    /\ isScanning' = FALSE
    /\ activeScanTasks' = 0
    /\ returned' = [settled |-> TRUE,
                    list |-> _sortResultsByOriginalOrder(
                                 results, AllDomains(invalidDomains, validDomains))]
    /\ domainQueue' = <<>>
    /\ results' = <<>>
    /\ completedCount' = 0
    /\ workers' = <<>>
    /\ UNCHANGED <<shouldStop, cache, cacheEnabled, mode, concurrentRequests,
                   delay, input, refused, progress, scans, envVars>>

(***************************************************************************)
(* stopScan                                                                *)
(***************************************************************************)
\* faulty variant: stopScan sets the flag whether or not a scan runs
NothingToStop_Never == FALSE

\* if (!this.isScanning) return
NothingToStop == ~isScanning

StopScan ==
    IF NothingToStop
    THEN Refuse("stopScan:idle")
    ELSE /\ shouldStop' = TRUE
         /\ UNCHANGED <<isScanning, activeScanTasks, cache, cacheEnabled, mode,
                        concurrentRequests, delay, scanVars, callerVars, envVars>>

\* stopScan called by a caller that remembers having stopped a scan
StopScanRemembered ==
    IF NothingToStop
    THEN Refuse("stopScan:idle")
    ELSE /\ shouldStop' = TRUE
         /\ stopped' = TRUE
         /\ UNCHANGED <<isScanning, activeScanTasks, cache, cacheEnabled, mode,
                        concurrentRequests, delay, scanVars, callerVars,
                        progressCallback, direct, selection, analysis, notified>>

(***************************************************************************)
(* setConcurrentRequests                                                   *)
(***************************************************************************)
\* the arguments the model calls setConcurrentRequests with
ConcurrencyArguments == 1..MaxConc

\* parseInt(count) || 3, for an integer count
ParseOrDefault(count) == IF count = 0 THEN DefaultConcurrentRequests ELSE count

SetConcurrentRequests(count) ==
    /\ concurrentRequests' = ParseOrDefault(count)
    /\ UNCHANGED <<isScanning, shouldStop, activeScanTasks, cache, cacheEnabled,
                   mode, delay, scanVars, callerVars, envVars>>

(***************************************************************************)
(* checkDomain called from outside a scan.                                 *)
(***************************************************************************)
\* the arguments the model calls checkDomain with; "" stands for every
\* argument that is falsy or no string
DirectArguments == {DomA, DomB, BadX, Blank, ""}

\* checkDomain up to its first await.  The model has one call from outside
\* a scan in flight at a time.
CheckDomain(str) ==
    /\ direct.pc # "checking"
    /\ IF str = ""
       THEN /\ direct' = [pc |-> "settled", domain |-> "unknown", strategy |-> "none",
                          result |-> _getErrorResult("unknown", NoDomain)]
            /\ cache' = cache
       ELSE IF ImmediateAnswers(str) # {}
       THEN /\ direct' = [pc |-> "settled", domain |-> Normalize(str),
                          strategy |-> "none",
                          result |-> CHOOSE r \in ImmediateAnswers(str) : TRUE]
            /\ cache' = cache
       ELSE IF AnswersAtOnce(StrategyOf(mode))
       THEN \E r \in StrategyOutcomes(Normalize(str)) :
               /\ direct' = [pc |-> "settled", domain |-> Normalize(str),
                             strategy |-> StrategyOf(mode), result |-> r]
               /\ cache' = IF cacheEnabled THEN CacheSet(cache, Normalize(str), r)
                           ELSE cache
       ELSE /\ direct' = [pc |-> "checking", domain |-> Normalize(str),
                          strategy |-> StrategyOf(mode), result |-> NoResult]
            /\ cache' = cache
    /\ UNCHANGED <<isScanning, shouldStop, activeScanTasks, cacheEnabled, mode,
                   concurrentRequests, delay, scanVars, callerVars,
                   progressCallback, selection, analysis, notified, stopped>>

\* the Mode Strategy has answered the call: checkDomain stores the result
\* if caching is enabled now, and returns it
DirectComplete ==
    /\ direct.pc = "checking"
    /\ \E r \in StrategyOutcomes(direct.domain) :
          /\ cache' = IF cacheEnabled THEN CacheSet(cache, direct.domain, r) ELSE cache
          /\ direct' = [direct EXCEPT !.pc = "settled", !.result = r]
    /\ UNCHANGED <<isScanning, shouldStop, activeScanTasks, cacheEnabled, mode,
                   concurrentRequests, delay, scanVars, callerVars,
                   progressCallback, selection, analysis, notified, stopped>>

(***************************************************************************)
(* setMode, selectBestAvailableMode                                        *)
(***************************************************************************)
availableModes == {"api", "web", "offline", "simulation"}

\* the arguments the model calls setMode with
ModeArguments == availableModes \cup {"bogus"}

\* if (!availableModes.includes(mode)) mode = 'simulation'
AcceptedMode(m) == IF m \in availableModes THEN m ELSE "simulation"

\* faulty variant: a mode switch empties the cache
SetMode_ClearsCache(m) ==
    /\ mode' = AcceptedMode(m)
    /\ notified' = <<AcceptedMode(m)>>
    /\ cache' = EmptyCache
    /\ UNCHANGED <<isScanning, shouldStop, activeScanTasks, cacheEnabled,
                   concurrentRequests, delay, scanVars, callerVars,
                   progressCallback, direct, selection, analysis, stopped>>

\* this.mode = mode; window.EventBus.emit('dmarc_client:mode_changed', mode)
SetMode(m) ==
    /\ mode' = AcceptedMode(m)
    /\ notified' = <<AcceptedMode(m)>>
    /\ UNCHANGED <<isScanning, shouldStop, activeScanTasks, cache, cacheEnabled,
                   concurrentRequests, delay, scanVars, callerVars,
                   progressCallback, direct, selection, analysis, stopped>>

\* returns false with an API key and without one
checkApiModeAvailability == FALSE

\* returns false
checkWebModeAvailability == FALSE

\* the promise of a _dnsLookup call is rejected
Rejected == [rejected |-> TRUE, records |-> <<>>]

\* the promise of a _dnsLookup call resolves to a list of records
Answer(records) == [rejected |-> FALSE, records |-> records]

\* checkOfflineModeAvailability, from the answer of its test lookup:
\* !!testResult && Array.isArray(testResult), which is true of every array,
\* the empty one too, and false in the catch block
OfflineModeAvailable(lookup) == ~lookup.rejected

\* what _dnsLookup('example.com', 'TXT') answers
ExampleComTxt == Answer(<<"v=spf1 include:_spf.example.com -all">>)

\* the test lookup is answered by the _dnsLookup of the client
checkOfflineModeAvailability == OfflineModeAvailable(ExampleComTxt)

Available(m) ==
    CASE m = "api" -> checkApiModeAvailability
      [] m = "web" -> checkWebModeAvailability
      [] m = "offline" -> checkOfflineModeAvailability

\* faulty variant: the probes are made in the opposite order
ProbeOrder_Reversed == <<"offline", "web", "api">>

\* the order of the if statements of selectBestAvailableMode
ProbeOrder == <<"api", "web", "offline">>

\* the probes made, in order: up to the first that answers true
RECURSIVE ProbesFrom(_)
ProbesFrom(order) ==
    IF order = <<>> THEN <<>>
    ELSE IF Available(Head(order)) THEN <<Head(order)>>
    ELSE <<Head(order)>> \o ProbesFrom(Tail(order))

\* the argument of the setMode call that follows the probes
Selected(probes) ==
    IF probes # <<>> /\ Available(probes[Len(probes)])
    THEN probes[Len(probes)]
    ELSE "simulation"

\* no probe waits for a timer or for the network: the call runs to its
\* return in one task
SelectBestAvailableMode ==
    /\ mode' = AcceptedMode(Selected(ProbesFrom(ProbeOrder)))
    /\ notified' = <<mode'>>
    /\ selection' = [pc |-> "settled", probes |-> ProbesFrom(ProbeOrder),
                     value |-> mode']
    /\ UNCHANGED <<isScanning, shouldStop, activeScanTasks, cache, cacheEnabled,
                   concurrentRequests, delay, scanVars, callerVars,
                   progressCallback, direct, analysis, stopped>>

(***************************************************************************)
(* clearCache, setCacheEnabled, setDelay                                   *)
(***************************************************************************)
ClearCache ==
    /\ cache' = EmptyCache
    /\ UNCHANGED <<isScanning, shouldStop, activeScanTasks, cacheEnabled, mode,
                   concurrentRequests, delay, scanVars, callerVars, envVars>>

\* this.cacheEnabled = !!enabled
SetCacheEnabled(enabled) ==
    /\ cacheEnabled' = enabled
    /\ UNCHANGED <<isScanning, shouldStop, activeScanTasks, cache, mode,
                   concurrentRequests, delay, scanVars, callerVars, envVars>>

\* the arguments the model calls setDelay with, in milliseconds
DelayArguments == {0, 500}

\* this.delay = parseInt(delay) || 1000, for an integer delay
SetDelay(ms) ==
    /\ delay' = IF ms = 0 THEN DefaultDelay ELSE ms
    /\ UNCHANGED <<isScanning, shouldStop, activeScanTasks, cache, cacheEnabled,
                   mode, concurrentRequests, scanVars, callerVars, envVars>>

(***************************************************************************)
(* The analyses of the offline Mode Strategy.  A DNS record is a string;   *)
(* includes(), match() and toLowerCase() are computed on its characters.   *)
(* An analysis is computed from the answer of the lookup it awaits: the    *)
(* list of records of a resolved _dnsLookup call, or its rejection.        *)
(***************************************************************************)
CharAt(text, i) == SubSeq(text, i, i)

\* String.prototype.includes
Includes(text, pattern) ==
    \E i \in 1..(Len(text) - Len(pattern) + 1) :
        SubSeq(text, i, i + Len(pattern) - 1) = pattern

UpperCase == "ABCDEFGHIJKLMNOPQRSTUVWXYZ"
LowerCase == "abcdefghijklmnopqrstuvwxyz"

\* a character under toLowerCase(), and under the i flag of an expression
LowerChar(c) ==
    IF Includes(UpperCase, c)
    THEN CharAt(LowerCase, CHOOSE k \in 1..Len(UpperCase) : CharAt(UpperCase, k) = c)
    ELSE c

\* String.prototype.toLowerCase on the characters of a record
RECURSIVE LowerText(_)
LowerText(text) ==
    IF text = "" THEN ""
    ELSE LowerChar(CharAt(text, 1)) \o LowerText(SubSeq(text, 2, Len(text)))

\* [^;\s]
IsValueChar(c) == c # ";" /\ c \notin Whitespace

DecimalDigits == "0123456789"

\* [0-9]
IsDigitChar(c) == Includes(DecimalDigits, c)

\* the two character classes of the expressions: "value" is [^;\s], "digit"
\* is [0-9]
InClass(class, c) == IF class = "value" THEN IsValueChar(c) ELSE IsDigitChar(c)

DigitValue(c) == (CHOOSE k \in 1..Len(DecimalDigits) : CharAt(DecimalDigits, k) = c) - 1

\* parseInt of a string of digits
RECURSIVE parseInt(_)
parseInt(digits) ==
    IF digits = "" THEN 0
    ELSE parseInt(SubSeq(digits, 1, Len(digits) - 1)) * 10
         + DigitValue(CharAt(digits, Len(digits)))

\* the expression /tag(class+)/i matches text at position i; tag is given in
\* lower case
MatchesAt(text, tag, i, class) ==
    /\ i + Len(tag) <= Len(text)
    /\ \A k \in 1..Len(tag) : LowerChar(CharAt(text, i + k - 1)) = CharAt(tag, k)
    /\ InClass(class, CharAt(text, i + Len(tag)))

\* text.match(/tag(class+)/i): whether there is a match and, for the
\* leftmost one, the longest group
Match(text, tag, class) ==
    LET places == {i \in 1..Len(text) : MatchesAt(text, tag, i, class)}
    IN IF places = {} THEN [found |-> FALSE, group |-> ""]
       ELSE LET i == CHOOSE p \in places : \A q \in places : p <= q
                from == i + Len(tag)
                to == CHOOSE e \in from..Len(text) :
                          /\ \A k \in from..e : InClass(class, CharAt(text, k))
                          /\ e = Len(text) \/ ~InClass(class, CharAt(text, e + 1))
            IN [found |-> TRUE, group |-> SubSeq(text, from, to)]

\* error.message of a rejected lookup
LookupFailed == "lookup failed"

\* the first record of the list that includes the marker, or "" for none:
\* for (const record of records) if (record.includes(marker)) ... break
FirstIncluding(records, marker) ==
    LET places == {i \in 1..Len(records) : Includes(records[i], marker)}
    IN IF places = {} THEN ""
       ELSE records[CHOOSE p \in places : \A q \in places : p <= q]

\* _checkDmarc, from the answer of its lookup of _dmarc.<domain>
_checkDmarc(lookup) ==
    IF lookup.rejected
    THEN [status |-> "error", record |-> "", policy |-> "", error |-> LookupFailed]
    ELSE LET dmarcRecord == FirstIncluding(lookup.records, "v=DMARC1")
             policyMatch == Match(dmarcRecord, "p=", "value")
             policy == IF policyMatch.found THEN LowerText(policyMatch.group) ELSE ""
             pctMatch == Match(dmarcRecord, "pct=", "digit")
             ruaMatch == Match(dmarcRecord, "rua=", "value")
             afterPolicy == IF policyMatch.found /\ policy # "none" THEN "ok" ELSE "warning"
             afterPct == IF ~pctMatch.found \/ parseInt(pctMatch.group) < 100
                         THEN "warning" ELSE afterPolicy
             status == IF ~ruaMatch.found THEN "warning" ELSE afterPct
         IN IF lookup.records = <<>> \/ dmarcRecord = ""
            THEN [status |-> "error", record |-> "", policy |-> "", error |-> NoError]
            ELSE [status |-> status, record |-> dmarcRecord, policy |-> policy,
                  error |-> NoError]

\* the status of an SPF record: ?all, then +all, then no -all and no ~all
SpfStatus(spfRecord) ==
    IF Includes(spfRecord, "?all") THEN "warning"
    ELSE IF Includes(spfRecord, "+all") THEN "warning"
    ELSE IF ~Includes(spfRecord, "-all") /\ ~Includes(spfRecord, "~all") THEN "warning"
    ELSE "ok"

\* faulty variant: a record without an all directive passes as ok
_checkSpf_NoAllIsOk(lookup) ==
    IF lookup.rejected
    THEN [status |-> "error", record |-> "", error |-> LookupFailed]
    ELSE LET spfRecord == FirstIncluding(lookup.records, "v=spf1")
         IN IF lookup.records = <<>> \/ spfRecord = ""
            THEN [status |-> "error", record |-> "", error |-> NoError]
            ELSE [status |-> IF Includes(spfRecord, "?all") \/ Includes(spfRecord, "+all")
                             THEN "warning" ELSE "ok",
                  record |-> spfRecord, error |-> NoError]

\* _checkSpf, from the answer of its lookup of the TXT records of the domain
_checkSpf(lookup) ==
    IF lookup.rejected
    THEN [status |-> "error", record |-> "", error |-> LookupFailed]
    ELSE LET spfRecord == FirstIncluding(lookup.records, "v=spf1")
         IN IF lookup.records = <<>> \/ spfRecord = ""
            THEN [status |-> "error", record |-> "", error |-> NoError]
            ELSE [status |-> SpfStatus(spfRecord), record |-> spfRecord,
                  error |-> NoError]

\* the selectors _checkDkim looks up, in the order of its loop
commonSelectors == <<"default", "google", "selector1", "selector2", "k1", "dkim">>

\* a record that counts as DKIM data
IsDkimRecord(record) ==
    Includes(record, "v=DKIM1") \/ Includes(record, "k=rsa") \/ Includes(record, "p=")

\* the lookup of a selector resolved to a list with a record of DKIM data
SelectorFound(lookup) ==
    /\ ~lookup.rejected
    /\ \E i \in 1..Len(lookup.records) : IsDkimRecord(lookup.records[i])

\* faulty variant: the first rejected lookup ends the loop
RECURSIVE ProbeSelectors_StopAtFailure(_, _, _)
ProbeSelectors_StopAtFailure(rest, lookups, st) ==
    IF rest = <<>> THEN st
    ELSE LET selector == Head(rest)
             looked == Append(st.looked, selector)
         IN IF lookups[selector].rejected
            THEN [found |-> st.found, looked |-> looked]
            ELSE ProbeSelectors_StopAtFailure(Tail(rest), lookups,
                    [found |-> IF SelectorFound(lookups[selector])
                               THEN Append(st.found, selector) ELSE st.found,
                     looked |-> looked])

\* the loop over the selectors: each is looked up; a rejected lookup is
\* caught inside the loop, which goes on with the next selector
RECURSIVE ProbeSelectors(_, _, _)
ProbeSelectors(rest, lookups, st) ==
    IF rest = <<>> THEN st
    ELSE LET selector == Head(rest)
             looked == Append(st.looked, selector)
         IN ProbeSelectors(Tail(rest), lookups,
                [found |-> IF SelectorFound(lookups[selector])
                           THEN Append(st.found, selector) ELSE st.found,
                 looked |-> looked])

\* _checkDkim, from the answers of its lookups of <selector>._domainkey.
\* <domain>; `looked` lists the selectors it has looked up, in order
_checkDkim(lookups) ==
    LET end == ProbeSelectors(commonSelectors, lookups, [found |-> <<>>, looked |-> <<>>])
    IN [status |-> IF Len(end.found) > 0
                   THEN (IF Len(end.found) > 1 THEN "ok" ELSE "warning")
                   ELSE "error",
        selectors |-> end.found,
        looked |-> end.looked,
        error |-> NoError]

\* _getMxRecords, from the answer of its MX lookup
_getMxRecords(lookup) == IF lookup.rejected THEN <<>> ELSE lookup.records

\* the result _checkDomainOffline builds from the values of the analyses
OfflineResult(domain, mxRecords, dmarcResult, spfResult, dkimResult) ==
    [domain |-> domain, error |-> NoError,
     dmarc |-> dmarcResult, spf |-> spfResult, dkim |-> dkimResult,
     mx |-> mxRecords,
     securityScore |-> _calculateSecurityScore(dmarcResult.status, spfResult.status,
                                               dkimResult.status)]

\* faulty variant: a rejected lookup reaches the catch block of the method
_checkDomainOffline_RejectionEscapes(domain, lookups) ==
    IF \/ lookups.mx.rejected
       \/ lookups.dmarc.rejected
       \/ lookups.spf.rejected
       \/ \E i \in 1..Len(commonSelectors) : lookups.dkim[commonSelectors[i]].rejected
    THEN [domain |-> domain, error |-> LookupFailed,
          dmarc |-> [status |-> "error", policy |-> "", record |-> ""],
          spf |-> [status |-> "error", record |-> ""],
          dkim |-> [status |-> "error", selectors |-> <<>>],
          mx |-> <<>>, securityScore |-> 0]
    ELSE OfflineResult(domain, _getMxRecords(lookups.mx), _checkDmarc(lookups.dmarc),
                       _checkSpf(lookups.spf), _checkDkim(lookups.dkim))

\* _checkDomainOffline, from the answers of the lookups its analyses make:
\* each analysis catches the rejection of its own lookup, so the catch block
\* of the method is not entered
_checkDomainOffline(domain, lookups) ==
    OfflineResult(domain, _getMxRecords(lookups.mx), _checkDmarc(lookups.dmarc),
                  _checkSpf(lookups.spf), _checkDkim(lookups.dkim))

\* faulty variant: the score is computed with the DMARC and the SPF status
\* exchanged
_simulateDomainCheck_ScoreArgumentsSwapped(domain, pick) ==
    LET dmarcPolicy == IF pick.dmarc = "ok" THEN pick.policy ELSE ""
    IN [domain |-> domain, error |-> NoError,
        dmarc |-> [status |-> pick.dmarc, policy |-> dmarcPolicy,
                   record |-> IF pick.dmarc = "error" THEN ""
                              ELSE "v=DMARC1; p=" \o dmarcPolicy \o "; pct=100;"],
        spf |-> [status |-> pick.spf,
                 record |-> IF pick.spf \in {"ok", "warning"}
                            THEN "v=spf1 include:_spf." \o domain \o " ~all" ELSE ""],
        dkim |-> [status |-> pick.dkim,
                  selectors |-> IF pick.dkim = "ok" THEN <<"default", "google">>
                                ELSE IF pick.dkim = "warning" THEN <<"default">>
                                ELSE <<>>],
        mx |-> <<"mx1." \o domain, "mx2." \o domain>>,
        securityScore |-> _calculateSecurityScore(pick.spf, pick.dmarc, pick.dkim)]

\* _simulateDomainCheck after its timer, from the values that randomItem
\* returns: pick.dmarc, pick.spf and pick.dkim of statuses, pick.policy of
\* policies (drawn when the DMARC status is ok)
_simulateDomainCheck(domain, pick) ==
    LET dmarcPolicy == IF pick.dmarc = "ok" THEN pick.policy ELSE ""
    IN [domain |-> domain, error |-> NoError,
        dmarc |-> [status |-> pick.dmarc, policy |-> dmarcPolicy,
                   record |-> IF pick.dmarc = "error" THEN ""
                              ELSE "v=DMARC1; p=" \o dmarcPolicy \o "; pct=100;"],
        spf |-> [status |-> pick.spf,
                 record |-> IF pick.spf \in {"ok", "warning"}
                            THEN "v=spf1 include:_spf." \o domain \o " ~all" ELSE ""],
        dkim |-> [status |-> pick.dkim,
                  selectors |-> IF pick.dkim = "ok" THEN <<"default", "google">>
                                ELSE IF pick.dkim = "warning" THEN <<"default">>
                                ELSE <<>>],
        mx |-> <<"mx1." \o domain, "mx2." \o domain>>,
        securityScore |-> _calculateSecurityScore(pick.dmarc, pick.spf, pick.dkim)]

(***************************************************************************)
(* The methods that compute a value: each is called once, with arguments   *)
(* drawn from a set, and the value it returns is kept in `analysis`.       *)
(***************************************************************************)
\* a call of method fn with argument arg that has not returned
Called(fn, arg) == [fn |-> fn, arg |-> arg, done |-> FALSE]

\* the call of `analysis` returns value out
Return(out) ==
    /\ analysis' = [fn |-> analysis.fn, arg |-> analysis.arg, done |-> TRUE, out |-> out]
    /\ UNCHANGED <<clientVars, scanVars, callerVars, progressCallback, direct, selection,
                   notified, stopped>>

\* the call of `analysis` is a call of fn that has not returned
Calling(fn) == analysis.fn = fn /\ ~analysis.done

\* the call of `analysis` is a call of fn that has returned
Returned(fn) == analysis.fn = fn /\ analysis.done

\* the values of a status field
Statuses == {"ok", "warning", "error"}

\* the arguments of the _calculateSecurityScore calls
ScoreArguments == Statuses \X Statuses \X Statuses

\* domainRegex.test(domain): the expression has no g flag and keeps no
\* position between calls
IsValidDomain ==
    /\ Calling("isValidDomain")
    /\ Return(isValidDomain(analysis.arg))

\* the records the model lets the lookup of _dmarc.<domain> answer with
DmarcRecords ==
    {"v=DMARC1; p=reject; rua=mailto:a@b.co; pct=100",
     "v=DMARC1; p=reject; rua=mailto:a@b.co; pct=50",
     "v=DMARC1; p=reject; rua=mailto:a@b.co",
     "v=DMARC1; p=reject; pct=100",
     "v=DMARC1; p=none; rua=mailto:a@b.co; pct=100",
     "v=DMARC1; p=quarantine; rua=mailto:a@b.co; pct=100",
     "v=DMARC1; rua=mailto:a@b.co; pct=100",
     "v=DMARC1; pct=100; rua=mailto:a@b.co; p=reject",
     "v=DMARC1; P=Reject; RUA=mailto:a@b.co; PCT=100",
     "v=DMARC1; sp=quarantine; p=none; rua=mailto:a@b.co; pct=100",
     "v=DMARC1; sp=none; p=reject; rua=mailto:a@b.co; pct=100",
     "v=DMARC1; sp=reject; rua=mailto:a@b.co; pct=100",
     "v=DMARC1; p=none",
     "v=DMARC1",
     "v=spf1 -all"}

\* the answers of that lookup: a rejection, no record, one record, and lists
\* of two records
DmarcLookups ==
    {Rejected, Answer(<<>>)}
    \cup {Answer(<<r>>) : r \in DmarcRecords}
    \cup {Answer(<<"v=spf1 -all", r>>) : r \in DmarcRecords}
    \cup {Answer(<<r, "v=DMARC1; p=reject; rua=mailto:a@b.co; pct=100">>) : r \in DmarcRecords}

\* the answers the model lets the test lookup of the offline probe have
ProbeLookups ==
    {Rejected, Answer(<<>>), Answer(<<"v=spf1 include:_spf.example.com -all">>),
     Answer(<<"v=spf1 -all", "v=DMARC1; p=none">>)}

CheckOfflineModeAvailability ==
    /\ Calling("checkOfflineModeAvailability")
    /\ Return(OfflineModeAvailable(analysis.arg))

\* the records the model lets the TXT lookup of the domain answer with
SpfRecords ==
    {"v=spf1 -all", "v=spf1 ~all", "v=spf1 ?all", "v=spf1 +all",
     "v=spf1 include:x.co", "v=spf1 all", "v=spf1 ?all -all",
     "v=spf1 +all ~all", "v=spf1 -all ~all", "V=SPF1 -all", "v=DMARC1; p=none"}

\* the answers of that lookup: a rejection, no record, one record, and lists
\* of two records
SpfLookups ==
    {Rejected, Answer(<<>>)}
    \cup {Answer(<<r>>) : r \in SpfRecords}
    \cup {Answer(<<"v=DMARC1; p=none", r>>) : r \in SpfRecords}
    \cup {Answer(<<r, "v=spf1 -all">>) : r \in SpfRecords}

CheckSpf ==
    /\ Calling("_checkSpf")
    /\ Return(_checkSpf(analysis.arg))

\* the answers the model lets the lookup of one selector have: a rejection,
\* no record, a key record, a record that is no DKIM data
SelectorLookups ==
    {Rejected, Answer(<<>>), Answer(<<"v=DKIM1; k=rsa; p=MIGf">>),
     Answer(<<"v=spf1 -all">>)}

\* the answers of the six lookups of one _checkDkim call
DkimLookups ==
    [{commonSelectors[i] : i \in 1..Len(commonSelectors)} -> SelectorLookups]

CheckDkim ==
    /\ Calling("_checkDkim")
    /\ Return(_checkDkim(analysis.arg))

\* the answers the model lets the lookups of one offline check have
OfflineLookups ==
    [mx : {Rejected, Answer(<<>>), Answer(<<"mx1.a.co", "mx2.a.co">>)},
     dmarc : {Rejected, Answer(<<>>),
              Answer(<<"v=DMARC1; p=reject; rua=mailto:a@b.co; pct=100">>),
              Answer(<<"v=DMARC1; p=none; rua=mailto:a@b.co; pct=100">>)},
     spf : {Rejected, Answer(<<>>), Answer(<<"v=spf1 -all">>), Answer(<<"v=spf1 ?all">>)},
     dkim : {lookups \in DkimLookups :
                \A i \in 3..Len(commonSelectors) :
                   lookups[commonSelectors[i]] = Answer(<<>>)}]

CheckDomainOffline ==
    /\ Calling("_checkDomainOffline")
    /\ Return(_checkDomainOffline("a.co", analysis.arg))

\* what randomItem can return in one _simulateDomainCheck call
SimulationPicks ==
    [dmarc : Statuses, spf : Statuses, dkim : Statuses,
     policy : {"reject", "quarantine", "none"}]

SimulateDomainCheck ==
    /\ Calling("_simulateDomainCheck")
    /\ Return(_simulateDomainCheck("a.co", analysis.arg))

\* the arguments of the _getErrorResult calls: a domain and a message
ErrorArguments ==
    {DomA, BadX, "unknown"} \X {InvalidFormat, NotFound, StrategyFailed, NoDomain}

GetErrorResult ==
    /\ Calling("_getErrorResult")
    /\ Return(_getErrorResult(analysis.arg[1], analysis.arg[2]))

CheckDmarc ==
    /\ Calling("_checkDmarc")
    /\ Return(_checkDmarc(analysis.arg))

CalculateSecurityScore ==
    /\ Calling("_calculateSecurityScore")
    /\ Return(_calculateSecurityScore(analysis.arg[1], analysis.arg[2], analysis.arg[3]))


(***************************************************************************)
Next ==
    \/ CheckDomains
    \/ \E w \in WorkerIds : CheckComplete(w)
    \/ \E w \in WorkerIds : ProcessNextDomain(w)
    \/ Finish
    \/ StopScan

\* one client, its scans and the calls made on it meanwhile
Spec == Init /\ [][Next]_vars

NextSettings ==
    \/ Next
    \/ \E count \in ConcurrencyArguments : SetConcurrentRequests(count)

\* the same, with the pool size setting changed at any time
SpecSettings == Init /\ [][NextSettings]_vars

\* the same client, with any of the callbacks handed to checkDomains
SpecCallbacks == InitCallbacks /\ [][Next]_vars

NextDirect ==
    \/ Next
    \/ \E str \in DirectArguments : CheckDomain(str)
    \/ DirectComplete

\* the client with checkDomain calls made from outside its scans
SpecDirect == Init /\ [][NextDirect]_vars

NextRescan ==
    \/ CheckDomainsRescan
    \/ \E w \in WorkerIds : CheckComplete(w)
    \/ \E w \in WorkerIds : ProcessNextDomain(w)
    \/ Finish
    \/ StopScan

\* one client and the scans made on it one after the other
SpecRescan == Init /\ [][NextRescan]_vars

NextModes ==
    \/ \E m \in ModeArguments : SetMode(m)
    \/ SelectBestAvailableMode
    \/ \E str \in DirectArguments : CheckDomain(str)
    \/ DirectComplete
    \/ \E enabled \in BOOLEAN : SetCacheEnabled(enabled)
    \/ ClearCache

\* one client, its mode and its cache, and the checkDomain calls made on it
SpecModes == Init /\ [][NextModes]_vars

NextCache ==
    \/ CheckDomainsSingle
    \/ \E w \in WorkerIds : CheckComplete(w)
    \/ \E w \in WorkerIds : ProcessNextDomain(w)
    \/ Finish
    \/ StopScan
    \/ \E m \in ModeArguments : SetMode(m)
    \/ SelectBestAvailableMode
    \/ \E enabled \in BOOLEAN : SetCacheEnabled(enabled)
    \/ \E ms \in DelayArguments : SetDelay(ms)
    \/ \E count \in ConcurrencyArguments : SetConcurrentRequests(count)
    \/ ClearCache

\* one client, its scans, and every call that sets a field of it
SpecCache == Init /\ [][NextCache]_vars

\* the arguments of the checkDomain calls made beside a scan: no domain, a
\* string that is no domain, a domain
ResultArguments == {"", BadX, DomA}

NextResults ==
    \/ CheckDomainsMixed
    \/ \E w \in WorkerIds : CheckComplete(w)
    \/ \E w \in WorkerIds : ProcessNextDomain(w)
    \/ Finish
    \/ StopScan
    \/ \E m \in ModeArguments : SetMode(m)
    \/ \E str \in ResultArguments : CheckDomain(str)
    \/ DirectComplete

\* one client, in each of its modes, with its scans and the checkDomain
\* calls made beside them
SpecResults == Init /\ [][NextResults]_vars

NextRestart ==
    \/ CheckDomainsAgain
    \/ \E w \in WorkerIds : CheckComplete(w)
    \/ \E w \in WorkerIds : ProcessNextDomain(w)
    \/ Finish
    \/ StopScanRemembered

\* one client, whose scans are stopped and followed by other scans
SpecRestart == Init /\ [][NextRestart]_vars

NextOptions ==
    \/ CheckDomainsMixed
    \/ \E w \in WorkerIds : CheckComplete(w)
    \/ \E w \in WorkerIds : ProcessNextDomain(w)
    \/ Finish
    \/ \E m \in ModeArguments : SetMode(m)
    \/ SelectBestAvailableMode
    \/ \E count \in CountArguments : SetConcurrentRequests(count)

\* a client constructed with any options, its scans, and the calls that set
\* its mode and its pool size
SpecOptions == InitOptions /\ [][NextOptions]_vars

\* the calls looked at, one in each behaviour
InitAnalyses ==
    /\ InitClient
    /\ progressCallback = "returns"
    /\ \/ \E t \in ScoreArguments : analysis = Called("_calculateSecurityScore", t)
       \/ \E str \in Strings : analysis = Called("isValidDomain", str)
       \/ \E lookup \in DmarcLookups : analysis = Called("_checkDmarc", lookup)
       \/ \E lookup \in ProbeLookups :
             analysis = Called("checkOfflineModeAvailability", lookup)
       \/ \E lookup \in SpfLookups : analysis = Called("_checkSpf", lookup)
       \/ \E lookups \in DkimLookups : analysis = Called("_checkDkim", lookups)
       \/ \E lookups \in OfflineLookups :
             analysis = Called("_checkDomainOffline", lookups)
       \/ \E pick \in SimulationPicks : analysis = Called("_simulateDomainCheck", pick)
       \/ \E args \in ErrorArguments : analysis = Called("_getErrorResult", args)

NextAnalyses ==
    \/ CalculateSecurityScore
    \/ IsValidDomain
    \/ CheckDmarc
    \/ CheckOfflineModeAvailability
    \/ CheckSpf
    \/ CheckDkim
    \/ CheckDomainOffline
    \/ SimulateDomainCheck
    \/ GetErrorResult

\* one call of one of the methods that compute a value
SpecAnalyses == InitAnalyses /\ [][NextAnalyses]_vars


\* the Mode Strategy answers, the timers fire, the promises resolve
Fairness ==
    /\ \A w \in 1..MaxConc : WF_vars(CheckComplete(w))
    /\ \A w \in 1..MaxConc : WF_vars(ProcessNextDomain(w))
    /\ WF_vars(Finish)

\* Spec with every started step finishing
FairSpec == Spec /\ Fairness

(***************************************************************************)
(* Properties.                                                             *)
(***************************************************************************)
DomainsOf(list) == [i \in 1..Len(list) |-> list[i].domain]

NonBlank(d) == Length(d) > 0

\* the entries of the input that are not blank, trimmed, in input order
NonBlankInputs == SelectSeq(MapTrim(input), NonBlank)

\* the number of checks in flight
InFlight == Cardinality({w \in DOMAIN workers : workers[w].pc = "checking"})

\* the valid domains that were popped from the queue
PoppedCount == Len(validDomains) - Len(domainQueue)

\* the domains that are still in the queue and were never popped
QueueOnly ==
    {domainQueue[i] : i \in 1..Len(domainQueue)}
        \ {validDomains[i] : i \in 1..PoppedCount}

callUnchanged == <<clientVars, scanVars, input, returned, progress, scans>>

\* C1: while a scan is in flight no checkDomains call is accepted; a call
\* made then is refused as busy and leaves every field of the client, every
\* local of the scan in flight (queue, accumulator, processed counter) and
\* what the scan has reported and will return as they were
C1_ReentrantCallRejected ==
    [][isScanning =>
         /\ scans' = scans
         /\ input' = input
         /\ refused' # refused =>
               /\ refused' = "checkDomains:busy"
               /\ UNCHANGED callUnchanged]_vars

\* C1 witness: a scan has settled with its full list after a call was
\* refused as busy while it ran
C1_Witness ==
    /\ returned.settled
    /\ refused = "checkDomains:busy"
    /\ Len(returned.list) = 2

\* C2: the returned list has its entries in the order of the input list
C2_InputOrder ==
    returned.settled => DomainsOf(returned.list) = NonBlankInputs

C4_NoEntryForUnpopped ==
    [][(isScanning /\ ~isScanning' /\ shouldStop) =>
          \A i \in 1..Len(returned'.list) :
              returned'.list[i].domain \notin QueueOnly]_vars

\* C4 as amended: the returned list has one entry for every entry of the
\* input that is not blank; the entry of a valid domain that no worker
\* popped is the placeholder error result 'Result not found'
C4_PlaceholderForUnpopped ==
    [][(isScanning /\ ~isScanning') =>
          /\ Len(returned'.list) = totalCount
          /\ \A d \in QueueOnly :
                \E i \in 1..Len(returned'.list) : returned'.list[i].domain = d
          /\ \A i \in 1..Len(returned'.list) :
                returned'.list[i].domain \in QueueOnly =>
                    returned'.list[i] = _getErrorResult(returned'.list[i].domain, NotFound)]_vars

\* C4 witness: a stopped scan has returned a placeholder for a.co, which
\* was never popped
C4_Witness ==
    /\ returned.settled
    /\ shouldStop
    /\ \E i \in 1..Len(returned.list) :
          returned.list[i] = _getErrorResult(DomA, NotFound)

\* C5: once the stop flag is set during a scan, the queue is not popped any
\* more; a check in flight is not aborted: the scan does not settle before
\* it completes, and when it completes its result is appended to the
\* accumulator and counted
C5_StopIsCooperative ==
    [][(isScanning /\ shouldStop) =>
          /\ isScanning' => domainQueue' = domainQueue
          /\ \A w \in DOMAIN workers :
                workers[w].pc = "checking" =>
                   /\ isScanning'
                   /\ \/ workers'[w].pc = "checking"
                      \/ /\ workers'[w].pc = "delay"
                         /\ Len(results') = Len(results) + 1
                         /\ SubSeq(results', 1, Len(results)) = results
                         /\ results'[Len(results')].domain = Normalize(workers[w].domain)
                         /\ completedCount' = completedCount + 1]_vars

\* C5 witness: the flag is set, a worker has seen it and left, a domain is
\* still in the queue and the popped domain's result is in the accumulator
C5_Witness ==
    /\ isScanning
    /\ shouldStop
    /\ domainQueue # <<>>
    /\ \E w \in DOMAIN workers : workers[w].pc = "done"
    /\ Len(results) = 1

\* C6: a scan that was asked to stop settles, given that every check in
\* flight and every delay finishes; a settled call leaves isScanning false,
\* and the list it returned is not longer than the input
C6_StoppedScanSettles ==
    /\ (isScanning /\ shouldStop) ~> returned.settled
    /\ [](returned.settled =>
            /\ ~isScanning
            /\ Len(returned.list) <= Len(input))

\* C6 witness: a stopped scan has settled with a domain left unchecked
C6_Witness ==
    /\ returned.settled
    /\ ~isScanning
    /\ shouldStop
    /\ Len(progress) < Len(returned.list)

\* C7: no two entries of the returned list are for the same domain
C7_NoDuplicateEntries ==
    returned.settled =>
        \A i, j \in 1..Len(returned.list) :
            i # j => returned.list[i].domain # returned.list[j].domain

\* C8: while no scan runs the stop flag does not change, and a stopScan
\* call then leaves every field of the client (shouldStop, isScanning, mode,
\* cache among them) as it was
C8_StopWhenIdleChangesNothing ==
    [][~isScanning =>
         /\ isScanning' \/ shouldStop' = shouldStop
         /\ (refused # "stopScan:idle" /\ refused' = "stopScan:idle") =>
               UNCHANGED callUnchanged]_vars

\* C8 witness: stopScan was called after a scan that ran to its end
C8_Witness ==
    /\ ~isScanning
    /\ refused = "stopScan:idle"
    /\ returned.settled
    /\ ~shouldStop

\* C9 as claimed: during a scan the checks in flight are at most
\* min(concurrentRequests, validCount)
C9_PoolBoundCurrentSetting ==
    isScanning => InFlight <= Min(concurrentRequests, Len(validDomains))

\* C9 as amended: a scan starts min(c, validCount) workers, none when that
\* is negative, c being concurrentRequests when the scan starts; the pool is
\* not resized during the scan, and the checks in flight are at most the
\* workers of the pool
C9_PoolSizedAtStart ==
    [][/\ scans' # scans =>
             Len(workers') = Max(0, Min(concurrentRequests, Len(validDomains')))
       /\ (isScanning /\ isScanning') => Len(workers') = Len(workers)
       /\ InFlight' <= Len(workers')]_vars

\* C9 witness: more checks in flight than the current concurrentRequests
C9_Witness ==
    /\ isScanning
    /\ InFlight = 2
    /\ concurrentRequests = 1

\* the entries of the sequence s that normalize to the key k
CountKey(s, k) == Cardinality({i \in 1..Len(s) : Normalize(s[i]) = k})

\* C10: during a scan the processed counter is the length of the
\* accumulator, which is the number of invalid entries plus the number of
\* completed checks; every valid entry is in the queue, in flight in one
\* worker, or completed with one result, and in one of these only
C10_NoLostUpdate ==
    isScanning =>
        /\ completedCount = Len(results)
        /\ Len(results) = Len(invalidDomains) + (PoppedCount - InFlight)
        /\ Len(progress) = completedCount
        /\ \A k \in Strings :
              CountKey(validDomains, k) =
                  CountKey(domainQueue, k)
                  + Cardinality({w \in DOMAIN workers :
                                    /\ workers[w].pc = "checking"
                                    /\ Normalize(workers[w].domain) = k})
                  + Cardinality({i \in (Len(invalidDomains) + 1)..Len(results) :
                                    results[i].domain = k})

\* C10 witness: two workers, one with its check done and one in flight
C10_Witness ==
    /\ isScanning
    /\ \E v, w \in DOMAIN workers :
          /\ workers[v].pc = "checking"
          /\ workers[w].pc = "delay"
    /\ completedCount = 1

\* the progress reports made for checked domains: those after the reports
\* for the invalid entries
CheckedReports == (Len(invalidDomains) + 1)..Len(progress)

\* C11: a scan that is not asked to stop settles, given that every check
\* and every delay finishes; when it has, one progress report was made for
\* every occurrence of a valid domain in the batch, and the last report has
\* processed = total = the number of entries that are not blank
C11_UnstoppedScanCompletes ==
    /\ isScanning ~> (returned.settled \/ shouldStop)
    /\ []((returned.settled /\ ~shouldStop) =>
            /\ Len(progress) = totalCount
            /\ progress[Len(progress)][1] = totalCount
            /\ progress[Len(progress)][2] = totalCount
            /\ \A k \in Strings :
                  CountKey(validDomains, k) =
                      Cardinality({i \in CheckedReports : progress[i][3].domain = k}))

\* C11 witness: a scan of two valid domains has run to its end
C11_Witness ==
    /\ returned.settled
    /\ ~shouldStop
    /\ Len(validDomains) = 2
    /\ progress[2][1] = 2

\* C12: the progress reports of a scan, in call order, have processed =
\* 1, 2, 3, ... and all have total = validCount + invalidCount
C12_ProgressCountsByOne ==
    \A i \in 1..Len(progress) :
        /\ progress[i][1] = i
        /\ progress[i][2] = Len(validDomains) + Len(invalidDomains)

\* C12 witness: a report for an invalid entry, then one by a worker
C12_Witness ==
    /\ Len(progress) = 2
    /\ progress[1][3].error = InvalidFormat
    /\ progress[2][3].error = NoError

\* C13: with a progress callback that throws at every call, every reported
\* result is in the accumulator and counted, in the order of the reports,
\* and a scan that was not stopped settles with a report made for every
\* entry: the workers went on popping and checkDomains returned its list
C13_CallbackThrowSwallowed ==
    progressCallback = "throws" =>
        /\ isScanning =>
              /\ completedCount = Len(results)
              /\ Len(progress) = Len(results)
              /\ \A i \in 1..Len(progress) :
                    /\ progress[i][1] = i
                    /\ progress[i][3] = results[i]
        /\ (returned.settled /\ ~shouldStop) =>
              /\ Len(progress) = totalCount
              /\ Len(returned.list) = totalCount

\* C13 witness: the callback threw for an invalid entry and for a checked
\* domain, and the scan has returned its list
C13_Witness ==
    /\ progressCallback = "throws"
    /\ returned.settled
    /\ ~shouldStop
    /\ Len(progress) = 2
    /\ progress[1][3].error = InvalidFormat
    /\ progress[2][3].domain = DomA

\* C14: a Mode Strategy is invoked, by a worker or by a checkDomain call
\* from outside a scan, only for a string that passes isValidDomain; during
\* a scan the accumulator and the progress reports begin with the error
\* results of the invalid entries, in their order
C14_InvalidNeverLookedUp ==
    /\ \A w \in DOMAIN workers :
          workers[w].pc = "checking" => isValidDomain(Normalize(workers[w].domain))
    /\ direct.strategy # "none" => isValidDomain(direct.domain)
    /\ isScanning =>
          /\ Len(results) >= Len(invalidDomains)
          /\ \A i \in 1..Len(invalidDomains) :
                /\ results[i] = _getErrorResult(invalidDomains[i], InvalidFormat)
                /\ progress[i] = <<i, totalCount, results[i]>>

\* C14 witness: checkDomain has answered "ab" with an error result while
\* a scan with an invalid entry has a check in flight
C14_Witness ==
    /\ direct = [pc |-> "settled", domain |-> BadX, strategy |-> "none",
                 result |-> _getErrorResult(BadX, InvalidFormat)]
    /\ isScanning
    /\ Len(invalidDomains) = 1
    /\ \E w \in DOMAIN workers : workers[w].pc = "checking"

\* C15: a checkDomains call whose list has no valid domain is refused and
\* changes nothing: isScanning stays false, shouldStop and the cache keep
\* their values, no worker exists and no progress report is made
C15_EmptyBatchRejected ==
    [][(refused # "checkDomains:empty" /\ refused' = "checkDomains:empty") =>
          /\ ~isScanning /\ ~isScanning'
          /\ shouldStop' = shouldStop
          /\ cache' = cache
          /\ progress' = progress
          /\ workers' = workers
          /\ UNCHANGED callUnchanged]_vars

\* C15 witness: after a scan that was stopped and has left results in the
\* cache, a call without a valid domain was refused
C15_Witness ==
    /\ refused = "checkDomains:empty"
    /\ ~isScanning
    /\ shouldStop
    /\ DOMAIN cache # {}
    /\ returned.settled

\* the ways a call on the client is refused
Refusals == {"none", "checkDomains:busy", "checkDomains:empty", "stopScan:idle"}

\* C16: a check that fails yields the error result of its own domain and
\* nothing else: a scan that was not stopped still settles with one report
\* for every occurrence of a valid domain, failed or not; checkDomains is
\* refused only as busy or for a list without a valid domain; a checkDomain
\* call settles with a result for the domain it looked up, never otherwise
C16_FailureStaysInItsSlot ==
    /\ \A i \in 1..Len(progress) :
          progress[i][3].error = StrategyFailed =>
              /\ progress[i][3] = _getErrorResult(progress[i][3].domain, StrategyFailed)
              /\ CountKey(validDomains, progress[i][3].domain) > 0
    /\ (returned.settled /\ ~shouldStop) =>
          /\ Len(returned.list) = totalCount
          /\ \A k \in Strings :
                Cardinality({i \in CheckedReports : progress[i][3].domain = k})
                    = CountKey(validDomains, k)
    /\ refused \in Refusals
    /\ direct.pc = "settled" => direct.result.domain = direct.domain
    /\ (direct.pc = "settled" /\ direct.result.error = StrategyFailed) =>
          direct.result = _getErrorResult(direct.domain, StrategyFailed)

\* C16 witness: the first check of a scan failed, the second did not, and
\* the scan has returned; a checkDomain call has settled with the error
\* result of a failed check
C16_Witness ==
    /\ returned.settled
    /\ ~shouldStop
    /\ Len(progress) = 2
    /\ progress[1][3].error = StrategyFailed
    /\ progress[2][3].error = NoError
    /\ direct.pc = "settled"
    /\ direct.result.error = StrategyFailed

\* a checkDomains call was accepted and has not settled
CallInFlight == scans > 0 /\ ~returned.settled

\* C17: isScanning is true exactly while an accepted checkDomains call has
\* not settled: it is set by the step that accepts the call and reset by the
\* step that settles it, stopped or not, and a call made after that is not
\* refused as busy
C17_ScanningWhileInFlight ==
    /\ [](isScanning <=> CallInFlight)
    /\ [][/\ scans' # scans => (~isScanning /\ isScanning')
          /\ (~returned.settled /\ returned'.settled) => (isScanning /\ ~isScanning')
          /\ (returned.settled /\ refused' # refused) => refused' # "checkDomains:busy"]_vars

\* C17 witness: a second call was accepted, after the first had settled
\* and left its result in the cache
C17_Witness ==
    /\ scans = 2
    /\ isScanning
    /\ DOMAIN cache # {}

(***************************************************************************)
(* The cache and the modes.                                                *)
(***************************************************************************)
\* a step in which checkDomain is called from outside a scan
DirectCallStep == direct.pc # "checking" /\ direct' # direct

\* C18: with caching enabled, a checkDomain call for a domain that has a cache
\* entry returns the stored result itself, at once and without a Mode
\* Strategy, and leaves the cache as it was, in every mode
C18_CacheHitVerbatim ==
    [][DirectCallStep /\ cacheEnabled /\ direct'.domain \in DOMAIN cache
       => /\ direct'.pc = "settled"
          /\ direct'.strategy = "none"
          /\ direct'.result = cache[direct'.domain]
          /\ cache' = cache]_vars

\* a call answered from the cache while the client is in web mode: the entry
\* was stored by an earlier call
C18_Witness ==
    /\ mode = "web"
    /\ cacheEnabled
    /\ direct.pc = "settled"
    /\ direct.strategy = "none"
    /\ direct.domain \in DOMAIN cache
    /\ direct.result = cache[direct.domain]

\* every entry of the cache is there after the step, with the same result
EntriesKept == \A d \in DOMAIN cache : d \in DOMAIN cache' /\ cache'[d] = cache[d]

\* a checkDomains call is accepted
ScanStartStep == scans' # scans

\* a checkDomains call returns
ScanEndStep == isScanning /\ ~isScanning'

\* a stopScan call on a running scan
StopStep == ~shouldStop /\ shouldStop'

\* a call that sets the mode, the caching flag, the delay or the pool size
SetterStep ==
    \/ mode' # mode
    \/ selection' # selection
    \/ cacheEnabled' # cacheEnabled
    \/ delay' # delay
    \/ concurrentRequests' # concurrentRequests

\* C19: a step that takes an entry out of the cache is a clearCache call, and
\* the start of a scan, its end, stopScan, setMode, selectBestAvailableMode,
\* setCacheEnabled, setDelay and setConcurrentRequests leave every entry in
\* the cache with the result it had
C19_OnlyClearCacheRemoves ==
    [][/\ (DOMAIN cache \ DOMAIN cache' # {}) => ClearCache
       /\ ScanStartStep \/ ScanEndStep \/ StopStep \/ SetterStep => EntriesKept]_vars

\* an entry is in the cache after a second scan was started, stopped and
\* ended, the mode selected, caching disabled and the delay set
C19_Witness ==
    /\ DOMAIN cache # {}
    /\ scans = MaxScans + 1
    /\ returned.settled
    /\ shouldStop
    /\ selection.pc = "settled"
    /\ mode = "offline"
    /\ ~cacheEnabled
    /\ delay # DefaultDelay

\* the last probe of a selection
LastProbe == selection'.probes[Len(selection'.probes)]

DmarcPoints == ("ok" :> 40) @@ ("warning" :> 20) @@ ("error" :> 0)
SpfPoints == ("ok" :> 30) @@ ("warning" :> 15) @@ ("error" :> 0)
DkimPoints == ("ok" :> 30) @@ ("warning" :> 15) @@ ("error" :> 0)

\* C23: the score of a status triple is the sum of the points of its three
\* statuses, and lies in 0..100
C23_ScoreIsSumOfPoints ==
    Returned("_calculateSecurityScore")
    => /\ analysis.out = DmarcPoints[analysis.arg[1]] + SpfPoints[analysis.arg[2]]
                          + DkimPoints[analysis.arg[3]]
       /\ analysis.out \in 0..100

\* the score of three ok statuses has been computed: the top of the range
C23_Witness ==
    /\ Returned("_calculateSecurityScore")
    /\ analysis.arg = <<"ok", "ok", "ok">>
    /\ analysis.out = 100

\* error < warning < ok
Rank == ("error" :> 0) @@ ("warning" :> 1) @@ ("ok" :> 2)

\* the triples made from t by replacing one status by a strictly better one
BetterTriples(t) ==
    {u \in ScoreArguments :
        \E i \in 1..3 : /\ Rank[u[i]] > Rank[t[i]]
                         /\ \A j \in (1..3) \ {i} : u[j] = t[j]}

\* C24: replacing one status of a triple by a strictly better one gives a
\* score that is not lower
C24_ScoreMonotonic ==
    Returned("_calculateSecurityScore")
    => \A u \in BetterTriples(analysis.arg) :
          _calculateSecurityScore(u[1], u[2], u[3]) >= analysis.out

\* a scored triple with a DKIM warning, which ok can replace
C24_Witness ==
    /\ Returned("_calculateSecurityScore")
    /\ analysis.arg = <<"warning", "error", "warning">>
    /\ analysis.out = 35
    /\ <<"warning", "error", "ok">> \in BetterTriples(analysis.arg)

(***************************************************************************)
(* The validator.                                                          *)
(***************************************************************************)
\* the characters of a label: letters in either case, digits, the hyphen
LabelChars == LowerLetters \cup UpperLetters \cup Digits \cup {"-"}

\* 1 to 63 letters, digits and hyphens, no hyphen first or last
IsLabel(l) ==
    /\ Len(l) \in 1..63
    /\ \A i \in 1..Len(l) : l[i] \in LabelChars
    /\ l[1] # "-"
    /\ l[Len(l)] # "-"

\* the positions of the dots of a string, with the positions before its
\* first and after its last character
LabelEnds(str) ==
    {0, Length(str) + 1} \cup {i \in 1..Length(str) : CharsOf(str)[i] = "."}

\* the k-th of these positions, counted from 0
LabelEnd(str, k) ==
    CHOOSE e \in LabelEnds(str) : Cardinality({x \in LabelEnds(str) : x < e}) = k

\* the labels of a string: what stands between two dots, or between a dot
\* and an end of the string
LabelsOf(str) ==
    [k \in 1..(Cardinality(LabelEnds(str)) - 1) |->
        SubSeq(CharsOf(str), LabelEnd(str, k - 1) + 1, LabelEnd(str, k) - 1)]

\* the claim as made: isValidDomain accepts exactly the strings of one or
\* more labels
C30_OneOrMoreLabels ==
    Returned("isValidDomain")
    => (analysis.out <=> \A i \in 1..Len(LabelsOf(analysis.arg)) :
                            IsLabel(LabelsOf(analysis.arg)[i]))

\* C30: isValidDomain accepts exactly the strings of two or more
\* dot-separated labels, each 1 to 63 letters, digits and hyphens with no
\* hyphen first or last, in any letter case, whose last label has two
\* characters or more
C30_TwoOrMoreLabels ==
    Returned("isValidDomain")
    => LET labels == LabelsOf(analysis.arg)
       IN analysis.out <=> /\ Len(labels) >= 2
                           /\ \A i \in 1..Len(labels) : IsLabel(labels[i])
                           /\ Len(labels[Len(labels)]) >= 2

\* a name whose last label is one character has been refused
C30_Witness ==
    /\ Returned("isValidDomain")
    /\ analysis.arg = "a.b"
    /\ ~analysis.out

(***************************************************************************)
(* The DMARC analysis.  A record is a list of tags name=value separated by *)
(* semicolons; the p tag of a record is the tag whose name is p.           *)
(***************************************************************************)
\* the positions of the semicolons of a record, with the positions before
\* its first and after its last character
TagEnds(record) ==
    {0, Len(record) + 1} \cup {i \in 1..Len(record) : CharAt(record, i) = ";"}

\* the k-th of these positions, counted from 0
TagEnd(record, k) ==
    CHOOSE e \in TagEnds(record) : Cardinality({x \in TagEnds(record) : x < e}) = k

\* a piece of a record without the blanks around it
Stripped(text) ==
    LET inked == {i \in 1..Len(text) : CharAt(text, i) # " "}
    IN IF inked = {} THEN ""
       ELSE SubSeq(text, CHOOSE a \in inked : \A b \in inked : a <= b,
                         CHOOSE a \in inked : \A b \in inked : a >= b)

\* the tags of a record, in order
TagsOf(record) ==
    [k \in 1..(Cardinality(TagEnds(record)) - 1) |->
        Stripped(SubSeq(record, TagEnd(record, k - 1) + 1, TagEnd(record, k) - 1))]

\* the position of the first = of a tag, or one past its end
EqualsAt(tag) ==
    CHOOSE i \in 1..(Len(tag) + 1) :
        /\ i = Len(tag) + 1 \/ CharAt(tag, i) = "="
        /\ \A j \in 1..(i - 1) : CharAt(tag, j) # "="

\* the name of a tag, in lower case, and its value
TagName(tag) == LowerText(SubSeq(tag, 1, EqualsAt(tag) - 1))
TagValueOf(tag) == SubSeq(tag, EqualsAt(tag) + 1, Len(tag))

\* the record has a tag of this name with a value
HasTag(record, name) ==
    \E k \in 1..Len(TagsOf(record)) :
        TagName(TagsOf(record)[k]) = name /\ TagValueOf(TagsOf(record)[k]) # ""

\* the value of the first tag of this name that has one
TagValue(record, name) ==
    LET tags == TagsOf(record)
        places == {k \in 1..Len(tags) : TagName(tags[k]) = name /\ TagValueOf(tags[k]) # ""}
    IN TagValueOf(tags[CHOOSE p \in places : \A q \in places : p <= q])

\* the record the analysis is about: the first that contains v=DMARC1
DmarcRecordOf(records) == FirstIncluding(records, "v=DMARC1")

\* C25: the DMARC analysis returns error with empty record and policy when
\* the lookup returns no record containing v=DMARC1; otherwise, on the first
\* such record, ok exactly when p is present and not none, pct is present
\* and at least 100, and rua is present, and warning in every other case
C25_DmarcStatus ==
    Returned("_checkDmarc") /\ ~analysis.arg.rejected
    => LET r == DmarcRecordOf(analysis.arg.records)
       IN IF r = ""
          THEN /\ analysis.out.status = "error"
               /\ analysis.out.record = ""
               /\ analysis.out.policy = ""
          ELSE analysis.out.status =
                  IF /\ HasTag(r, "p")
                     /\ LowerText(TagValue(r, "p")) # "none"
                     /\ HasTag(r, "pct")
                     /\ parseInt(TagValue(r, "pct")) >= 100
                     /\ HasTag(r, "rua")
                  THEN "ok" ELSE "warning"

\* C26: the policy the DMARC analysis reports is the lower-cased value of
\* the p tag of the record, wherever the tag stands in the record and
\* whatever pct and rua are
C26_PolicyIsPTag ==
    Returned("_checkDmarc") /\ ~analysis.arg.rejected
    => LET r == DmarcRecordOf(analysis.arg.records)
       IN r # "" /\ HasTag(r, "p")
          => analysis.out.policy = LowerText(TagValue(r, "p"))

(***************************************************************************)
(* The offline availability probe.                                         *)
(***************************************************************************)
\* C21: the offline availability predicate returns true if and only if its
\* test lookup returns a list that is not empty; an empty list and a
\* rejected lookup give false
C21_AvailableIffNonEmptyAnswer ==
    Returned("checkOfflineModeAvailability")
    => (analysis.out <=> ~analysis.arg.rejected /\ analysis.arg.records # <<>>)

(***************************************************************************)
(* The SPF analysis.                                                       *)
(***************************************************************************)
\* the records of an answer that contain v=spf1, by their places in it
SpfPlaces(records) == {i \in 1..Len(records) : Includes(records[i], "v=spf1")}

\* C27: the SPF analysis returns error when no returned record contains
\* v=spf1; otherwise, on the first such record, warning if the record
\* contains ?all, else warning if it contains +all, else warning if it
\* contains neither -all nor ~all, else ok
C27_SpfStatus ==
    Returned("_checkSpf") /\ ~analysis.arg.rejected
    => LET records == analysis.arg.records
           first == records[CHOOSE p \in SpfPlaces(records) :
                               \A q \in SpfPlaces(records) : p <= q]
       IN IF SpfPlaces(records) = {} THEN analysis.out.status = "error"
          ELSE /\ analysis.out.record = first
               /\ analysis.out.status =
                     IF Includes(first, "?all") THEN "warning"
                     ELSE IF Includes(first, "+all") THEN "warning"
                     ELSE IF ~Includes(first, "-all") /\ ~Includes(first, "~all")
                     THEN "warning"
                     ELSE "ok"

\* the analysis has returned warning for a record without an all directive
\* that stands second in the answer, behind a record that is no SPF record
C27_Witness ==
    /\ Returned("_checkSpf")
    /\ analysis.arg = Answer(<<"v=DMARC1; p=none", "v=spf1 include:x.co">>)
    /\ analysis.out.status = "warning"
    /\ analysis.out.record = "v=spf1 include:x.co"

(***************************************************************************)
(* The DKIM analysis.                                                      *)
(***************************************************************************)
\* the selectors in the order the claim gives
SelectorsInOrder == <<"default", "google", "selector1", "selector2", "k1", "dkim">>

\* the lookup of a selector did not fail and answered DKIM data
FoundBy(lookup) ==
    /\ ~lookup.rejected
    /\ \E i \in 1..Len(lookup.records) :
          \/ Includes(lookup.records[i], "v=DKIM1")
          \/ Includes(lookup.records[i], "k=rsa")
          \/ Includes(lookup.records[i], "p=")

\* the selectors the claim counts as found, in probe order
FoundInOrder(lookups) ==
    LET Found(selector) == FoundBy(lookups[selector])
    IN SelectSeq(SelectorsInOrder, Found)

\* C28: the DKIM analysis looks up default, google, selector1, selector2,
\* k1, dkim in this order, all six also when a lookup fails; a selector
\* whose lookup fails counts as not found; the result lists the found
\* selectors in probe order, with status error for none, warning for one
\* and ok for two or more
C28_DkimSelectors ==
    Returned("_checkDkim")
    => /\ analysis.out.looked = SelectorsInOrder
       /\ analysis.out.selectors = FoundInOrder(analysis.arg)
       /\ analysis.out.status =
             CASE Len(FoundInOrder(analysis.arg)) = 0 -> "error"
               [] Len(FoundInOrder(analysis.arg)) = 1 -> "warning"
               [] OTHER -> "ok"

\* the lookup of the first selector failed, and the analysis has found two
\* of the selectors behind it
C28_Witness ==
    /\ Returned("_checkDkim")
    /\ analysis.arg["default"].rejected
    /\ analysis.out.selectors = <<"selector1", "dkim">>
    /\ analysis.out.status = "ok"

(***************************************************************************)
(* The offline check.                                                      *)
(***************************************************************************)
\* C29: in an offline check a rejected lookup makes the status of its own
\* analysis error (the MX list empty, the selector not found) and nothing
\* else: every analysis returns what it returns on its own answers, the
\* result has no error field of its own, and the score is the sum of the
\* points of the three statuses
C29_RejectionStaysInItsAnalysis ==
    Returned("_checkDomainOffline")
    => LET lookups == analysis.arg
           out == analysis.out
       IN /\ out.error = NoError
          /\ lookups.dmarc.rejected => out.dmarc.status = "error"
          /\ lookups.spf.rejected => out.spf.status = "error"
          /\ lookups.mx.rejected => out.mx = <<>>
          /\ \A i \in 1..Len(SelectorsInOrder) :
                lookups.dkim[SelectorsInOrder[i]].rejected
                => \A k \in 1..Len(out.dkim.selectors) :
                      out.dkim.selectors[k] # SelectorsInOrder[i]
          /\ out.dmarc = _checkDmarc(lookups.dmarc)
          /\ out.spf = _checkSpf(lookups.spf)
          /\ out.dkim = _checkDkim(lookups.dkim)
          /\ ~lookups.mx.rejected => out.mx = lookups.mx.records
          /\ out.securityScore = DmarcPoints[out.dmarc.status] + SpfPoints[out.spf.status]
                                  + DkimPoints[out.dkim.status]

\* the DMARC lookup and the lookup of the first selector were rejected: the
\* result has the SPF status ok, one selector found and the score 45
C29_Witness ==
    /\ Returned("_checkDomainOffline")
    /\ analysis.arg.dmarc.rejected
    /\ analysis.arg.dkim["default"].rejected
    /\ analysis.out.error = NoError
    /\ analysis.out.dmarc.status = "error"
    /\ analysis.out.spf.status = "ok"
    /\ analysis.out.dkim.selectors = <<"google">>
    /\ analysis.out.mx # <<>>
    /\ analysis.out.securityScore = 45

(***************************************************************************)
(* The results that carry an error.                                        *)
(***************************************************************************)
\* every result the client has handed out or keeps: the results of the scan,
\* the list its promise resolved with, the results given to the progress
\* callback, the cached results and the result of a settled checkDomain call
ResultsHeld ==
    {results[i] : i \in 1..Len(results)}
    \cup {returned.list[i] : i \in 1..Len(returned.list)}
    \cup {progress[i][3] : i \in 1..Len(progress)}
    \cup {cache[k] : k \in DOMAIN cache}
    \cup (IF direct.pc = "settled" THEN {direct.result} ELSE {})

\* C22: in every result of checkDomain or checkDomains, in any mode, an
\* error field that is present comes with the statuses error for DMARC, SPF
\* and DKIM and with the security score 0
C22_ErrorResultsScoreZero ==
    \A r \in ResultsHeld :
       r.error # NoError
       => /\ r.dmarc = "error"
          /\ r.spf = "error"
          /\ r.dkim = "error"
          /\ r.securityScore = 0

\* in offline mode a scan has resolved with the error result of an entry
\* that is no domain next to a result without error, and a checkDomain call
\* made without a domain has settled with an error result
C22_Witness ==
    /\ mode = "offline"
    /\ returned.settled
    /\ \E i \in 1..Len(returned.list) :
          /\ returned.list[i].error = InvalidFormat
          /\ returned.list[i].dmarc = "error"
          /\ returned.list[i].securityScore = 0
    /\ \E i \in 1..Len(returned.list) : returned.list[i].error = NoError
    /\ direct.pc = "settled"
    /\ direct.result.error = NoDomain
    /\ direct.result.securityScore = 0

(***************************************************************************)
(* The cache inside a scan.                                                *)
(***************************************************************************)
\* a step of a running scan in which a worker that has finished its delay
\* pops a domain that has a cache entry, caching being enabled
PopHitStep ==
    /\ isScanning /\ isScanning'
    /\ scans' = scans
    /\ domainQueue # <<>>
    /\ domainQueue' = Tail(domainQueue)
    /\ cacheEnabled
    /\ Normalize(Head(domainQueue)) \in DOMAIN cache

\* the worker that popped the head of the queue waits for the inter-request
\* delay after the step
PopperDelays ==
    \E w \in DOMAIN workers :
       /\ workers[w].pc = "delay"
       /\ workers' = [workers EXCEPT ![w] = [pc |-> "delay", domain |-> Head(domainQueue)]]

\* C31 as claimed: a worker whose popped domain is answered from the cache
\* takes no inter-request delay before its next pop
C31_NoDelayAfterCacheHit == [][PopHitStep => ~PopperDelays]_vars

\* C31 as the code has it: a cache hit skips the Mode Strategy only; the
\* worker pushes the stored result in the task of the pop, leaves the cache
\* as it was, and waits for the inter-request delay as after any other check
C31_DelayAfterEveryCheck ==
    [][PopHitStep =>
          /\ PopperDelays
          /\ results' = Append(results, cache[Normalize(Head(domainQueue))])
          /\ completedCount' = completedCount + 1
          /\ cache' = cache]_vars

\* the one worker of a scan of the same domain twice has pushed both results,
\* the second one from the cache, and waits for its delay
C31_Witness ==
    /\ isScanning
    /\ input = <<DomA, DomA>>
    /\ Len(workers) = 1
    /\ workers[1].pc = "delay"
    /\ cacheEnabled
    /\ DomA \in DOMAIN cache
    /\ results = <<cache[DomA], cache[DomA]>>
    /\ domainQueue = <<>>

(***************************************************************************)
(* The mode of the client.                                                 *)
(***************************************************************************)
\* a step of setMode, called by the client's user or by
\* selectBestAvailableMode
SetModeStep == mode' # mode \/ notified' # notified

\* C32: every setMode call emits one mode-changed event, with the mode that
\* is active after the call, and changes nothing but the mode (and the
\* record of selectBestAvailableMode, when that made the call); the mode it
\* sets is one of api, web, offline and simulation, and getMode() returns
\* one of these four at any time
C32_ModeIsOneOfFour ==
    /\ [](mode \in availableModes)
    /\ [][SetModeStep =>
             /\ notified' = <<mode'>>
             /\ mode' \in availableModes
             /\ UNCHANGED <<isScanning, shouldStop, activeScanTasks, cache,
                            cacheEnabled, concurrentRequests, delay, scanVars,
                            callerVars, progressCallback, direct, analysis,
                            stopped>>]_vars

(***************************************************************************)
(* The entries of valid domains.                                           *)
(***************************************************************************)
\* C33: when a scan that was not stopped has returned, the entry of every
\* valid input domain is a result that checkDomain produced for that domain
\* (one that was reported as progress, with the normalized domain as its
\* domain field), not the placeholder 'Result not found', whatever the letter
\* case and the surrounding blanks of the input string
C33_ValidEntriesAreCheckResults ==
    (returned.settled /\ ~shouldStop) =>
        \A i \in 1..Len(returned.list) :
           i > Len(invalidDomains) =>
              /\ returned.list[i].error # NotFound
              /\ returned.list[i].domain = Normalize(validDomains[i - Len(invalidDomains)])
              /\ \E k \in 1..Len(progress) : progress[k][3] = returned.list[i]

(***************************************************************************)
(* The checks of one domain.                                               *)
(***************************************************************************)
\* C34: with caching enabled, the Mode Strategy is invoked at most once for
\* a domain during a scan: no two checks of one domain are in flight
\* together, and no check is in flight for a domain whose result is in the
\* cache already
C34_OneCheckPerDomain ==
    (isScanning /\ cacheEnabled) =>
        \A w \in Checking(workers) :
           /\ Normalize(workers[w].domain) \notin DOMAIN cache
           /\ \A v \in Checking(workers) :
                 Normalize(workers[v].domain) = Normalize(workers[w].domain) => v = w

(***************************************************************************)
(* The results of the Mode Strategies.                                     *)
(***************************************************************************)
\* a result that a Mode Strategy has built: the offline strategy, or the
\* simulation, which the api and the web strategy return too
StrategyReturned == Returned("_checkDomainOffline") \/ Returned("_simulateDomainCheck")

\* C35: the security score of a result is the score of its own three
\* statuses, in the result of the offline strategy, in the result of the
\* simulation (which the api and the web mode use too) and in an error result
C35_ScoreOfOwnStatuses ==
    /\ StrategyReturned =>
          analysis.out.securityScore =
             DmarcPoints[analysis.out.dmarc.status] + SpfPoints[analysis.out.spf.status]
             + DkimPoints[analysis.out.dkim.status]
    /\ Returned("_getErrorResult") =>
          analysis.out.securityScore =
             DmarcPoints[analysis.out.dmarc] + SpfPoints[analysis.out.spf]
             + DkimPoints[analysis.out.dkim]

\* a simulated result with three different statuses and the score 55
C35_Witness ==
    /\ Returned("_simulateDomainCheck")
    /\ analysis.out.dmarc.status = "ok"
    /\ analysis.out.spf.status = "error"
    /\ analysis.out.dkim.status = "warning"
    /\ analysis.out.securityScore = 55

\* C36: in a result of any Mode Strategy, the DMARC status ok comes with a
\* policy that is not empty and not none, and the DMARC status error comes
\* with an empty record and an empty policy
C36_DmarcFieldsFollowStatus ==
    StrategyReturned =>
        /\ analysis.out.dmarc.status = "ok" =>
              /\ analysis.out.dmarc.policy # ""
              /\ analysis.out.dmarc.policy # "none"
        /\ analysis.out.dmarc.status = "error" =>
              /\ analysis.out.dmarc.record = ""
              /\ analysis.out.dmarc.policy = ""

(***************************************************************************)
(* The keys of the cache.                                                  *)
(***************************************************************************)
\* C37: every key of the cache is a trimmed, lower-case string that
\* isValidDomain accepts, the result stored under a key has the key as its
\* domain, and no result of a string that is no domain or of a missing
\* argument is stored
C37_CacheKeysNormalized ==
    \A k \in DOMAIN cache :
       /\ Trim(k) = k
       /\ ToLowerCase(k) = k
       /\ isValidDomain(k)
       /\ cache[k].domain = k
       /\ cache[k].error \notin {InvalidFormat, NoDomain, NotFound}

\* the results of a.co and of " B.CO" are stored, the latter under b.co, and
\* a call with a string that is no domain has returned its error result
C37_Witness ==
    /\ DOMAIN cache = {"a.co", "b.co"}
    /\ direct.pc = "settled"
    /\ direct.domain = BadX
    /\ direct.result.error = InvalidFormat

(***************************************************************************)
(* Caching switched off.                                                   *)
(***************************************************************************)
\* a step in which the Mode Strategy answers a checkDomain call that was
\* waiting for it
DirectAnswerStep == direct.pc = "checking" /\ direct'.pc = "settled"

\* C38: while caching is disabled a checkDomain call for a domain invokes
\* the Mode Strategy, whether or not the domain has a cache entry, and
\* neither the call nor the answer of its strategy changes the cache;
\* setCacheEnabled leaves the entries as they are, and once caching is
\* enabled a call for a domain that has an entry returns the stored result
C38_DisabledCacheUntouched ==
    [][/\ (DirectCallStep /\ ~cacheEnabled /\ isValidDomain(direct'.domain))
          => /\ direct'.strategy = StrategyOf(mode)
             /\ cache' = cache
       /\ (DirectAnswerStep /\ ~cacheEnabled) => cache' = cache
       /\ cacheEnabled' # cacheEnabled => cache' = cache
       /\ (DirectCallStep /\ cacheEnabled /\ direct'.domain \in DOMAIN cache)
          => /\ direct'.strategy = "none"
             /\ direct'.result = cache[direct'.domain]]_vars

\* caching is disabled, a.co has a cache entry, and a call for a.co has
\* returned a result of the Mode Strategy that is not the stored one
C38_Witness ==
    /\ ~cacheEnabled
    /\ DomA \in DOMAIN cache
    /\ direct.pc = "settled"
    /\ direct.domain = DomA
    /\ direct.strategy = "simulation"
    /\ direct.result # cache[DomA]

(***************************************************************************)
(* A scan after a stopped scan.                                            *)
(***************************************************************************)
\* C39: every accepted checkDomains call starts with the stop flag cleared,
\* whatever an earlier scan has left in it, and a scan that has returned
\* without a stop request of its own has processed every valid domain of
\* its list
C39_StopDoesNotCarryOver ==
    /\ [][scans' # scans => ~shouldStop']_vars
    /\ []((returned.settled /\ ~shouldStop) =>
             /\ Len(progress) = Len(validDomains) + Len(invalidDomains)
             /\ \A i \in 1..Len(validDomains) :
                   \E k \in 1..Len(progress) :
                      progress[k][3].domain = Normalize(validDomains[i]))

\* a scan was stopped, and the scan of two domains that followed it has
\* returned, with one worker and without a stop request, after both domains
\* were processed
C39_Witness ==
    /\ stopped
    /\ scans = 2
    /\ returned.settled
    /\ ~shouldStop
    /\ concurrentRequests = 1
    /\ input = <<DomA, DomB>>
    /\ Len(progress) = 2
    /\ progress[2][3].domain = "b.co"

(***************************************************************************)
(* The size of the worker pool.                                            *)
(***************************************************************************)
\* C40: concurrentRequests is a positive integer after construction and
\* after every setConcurrentRequests call, and every accepted scan starts
\* at least one worker
C40_PoolSizePositive ==
    /\ [](concurrentRequests >= 1)
    /\ [][scans' # scans /\ Len(validDomains') > 0 => Len(workers') >= 1]_vars

\* an accepted scan with a valid domain that started no worker
C40_ScanWithoutWorker ==
    /\ scans = 1
    /\ isScanning
    /\ Len(validDomains) > 0
    /\ workers = <<>>
    /\ concurrentRequests < 1

=============================================================================
